---- MODULE Spec2Model ----
(***************************************************************************)
(* Model of the multi-agent-discussion repository.                         *)
(*                                                                         *)
(*   SpecLog   : N writer processes appending to one discussion log        *)
(*               through Discussion.append and the lock-file protocol      *)
(*               (lib/discussion.js).                                      *)
(*   SpecCli   : the user-facing operations of the mad CLI and of the      *)
(*               Coordinator on the discussion directory (create, ask,     *)
(*               respond, end, end all).                                   *)
(*   SpecAgent : one agent process (lib/agent-base.js with the             *)
(*               respondToTrigger override of bin/claude-agent.js) and     *)
(*               its environment; SpecAgentShort and SpecAgentFair are the *)
(*               same agent over fewer records, SpecQueue the agent with  *)
(*               one slot over five discussions.                           *)
(*   SpecInvoker : one call of callClaude / callCodex, its timers and the  *)
(*               events of its child process (lib/claude-client.js,        *)
(*               lib/codex-client.js).                                     *)
(***************************************************************************)
EXTENDS Integers, Sequences, FiniteSets, TLC

(***************************************************************************)
(* Messages (lib/message.js)                                               *)
(***************************************************************************)

\* JavaScript's undefined, for numeric fields
Undefined == -1

\* JavaScript's null / undefined, for string fields
Null == "null"

START == "start"

RESPONSE == "response"

FOLLOWUP == "followup"

END == "end"

ERROR == "error"

STATUS == "status"

\* the participants every discussion of the model is created with
Participants == <<"claude", "codex">>

\* a message with every optional field absent
createMessage(seq, ts, from, type) ==
  [seq |-> seq, ts |-> ts, from |-> from, type |-> type,
   round |-> Undefined, target |-> Null, status |-> Null,
   topic |-> Null, participants |-> <<>>, context |-> Null,
   decision |-> Null, consensus |-> Null]

createStartMessage(seq, ts, topic, participants, context) ==
  [createMessage(seq, ts, "user", START) EXCEPT
     !.topic = topic, !.participants = participants, !.context = context]

createResponseMessage(seq, ts, from, round) ==
  [createMessage(seq, ts, from, RESPONSE) EXCEPT !.round = round]

createFollowupMessage(seq, ts, target) ==
  [createMessage(seq, ts, "user", FOLLOWUP) EXCEPT !.target = target]

createEndMessage(seq, ts, decision, consensus) ==
  [createMessage(seq, ts, "user", END) EXCEPT
     !.decision = decision, !.consensus = consensus]

createErrorMessage(seq, ts, from, round) ==
  [createMessage(seq, ts, from, ERROR) EXCEPT !.round = round]

\* the status records agents write (thinking / retrying)
createStatusMessage(seq, ts, from, status, round) ==
  [createMessage(seq, ts, from, STATUS) EXCEPT !.status = status, !.round = round]

(***************************************************************************)
(* Pure parts of Discussion (lib/discussion.js)                            *)
(***************************************************************************)

\* x || 0 on a round
OrZero(x) == IF x = Undefined THEN 0 ELSE x

\* x || 1 on a round
OrOne(x) == IF x = Undefined \/ x = 0 THEN 1 ELSE x

SetMax(S) == CHOOSE x \in S : \A y \in S : y <= x

\* Math.max(0, ...responses.map(r => r.round || 0))
HighestResponseRound(messages) ==
  SetMax({0} \cup {OrZero(messages[i].round) :
                     i \in {j \in 1..Len(messages) : messages[j].type = RESPONSE}})

\* messages.length > 0 ? messages[messages.length - 1].seq : 0
LastSeq(messages) ==
  IF Len(messages) > 0 THEN messages[Len(messages)].seq ELSE 0

\* the round a follow-up without a round is given, from the log that was read
AssignedRound(messages, data) ==
  IF data.type = FOLLOWUP /\ data.round = Undefined
  THEN HighestResponseRound(messages) + 1
  ELSE data.round

\* the record append builds from the log it read inside the lock
StampedMessage(messages, data, ts) ==
  [data EXCEPT !.round = AssignedRound(messages, data),
               !.seq = LastSeq(messages) + 1,
               !.ts = ts]

\* Maps as functions on the keys present
MapGet(m, k, default) == IF k \in DOMAIN m THEN m[k] ELSE default

MapSet(m, k, v) == [x \in (DOMAIN m) \cup {k} |-> IF x = k THEN v ELSE m[x]]

MapDelete(m, k) == [x \in (DOMAIN m) \ {k} |-> m[x]]

EmptyMap == [x \in {} |-> 0]

(***************************************************************************)
(* State                                                                   *)
(***************************************************************************)

VARIABLES
  \* ---- SpecLog: one discussion's files and the processes appending to it
  clock,        \* Date.now(), in ms
  logFile,      \* <id>.jsonl: the records in file order
  lockFile,     \* <id>.jsonl.lock: NoLock, or the pid and mtime of the file
  writers,      \* per writer process: position in append and its locals
  \* ---- SpecCli: the discussion directory and the user's interactive sessions
  files,        \* discussion id -> records of <id>.jsonl (<<>>: no such file)
  watchRepl,    \* ids with an interactive watch session reading commands
  \* ---- SpecAgent: one agent process over the discussion directory
  agent,        \* the fields of the AgentBase object and its pending callbacks
  entered,      \* history: (discussion, round) -> entries of the execute path
  cleared,      \* history: (discussion, round) -> removals by handleTimeoutWithRetry
  failed,       \* history: discussion -> failed finalizes since the last successful one
  budget,       \* how far a behaviour is followed: records, records of others, ticks
  \* ---- SpecInvoker: one call of callClaude / callCodex and its child process
  call,         \* the locals of the call's closure and its promise
  child,        \* the spawned process as the ChildProcess object sees it
  \* ---- SpecParse: one call of parseClaudeResponse / parseCodexResponse
  parsed        \* the confidence text of the response and the value returned

logVars == <<clock, logFile, lockFile, writers>>

cliVars == <<files, watchRepl>>

agentVars == <<agent, entered, cleared, failed, budget>>

invokerVars == <<call, child>>

clientVars == <<invokerVars, parsed>>

vars == <<logVars, cliVars, agentVars, clientVars>>

notLogVars == <<cliVars, agentVars, clientVars>>

notCliVars == <<logFile, lockFile, writers, agentVars, clientVars>>

notInvokerVars == <<logFile, lockFile, writers, cliVars, agentVars, parsed>>

notParseVars == <<logVars, cliVars, agentVars, invokerVars>>

\* options of the AgentBase constructor
maxConcurrentOption == 1

maxQueueSizeOption == 1

localCircuitThresholdOption == 1

maxWatchedDiscussionsOption == 1

\* new AgentBase(options); attempts and delayed are the calls of respondToTrigger
\* suspended at an await and the setTimeout callbacks not yet run
NewAgent ==
  [running |-> FALSE,
   timers |-> {},
   watchedDiscussions |-> EmptyMap,
   pendingRetries |-> EmptyMap,
   respondedRounds |-> EmptyMap,
   responding |-> {},
   maxConcurrent |-> maxConcurrentOption,
   maxQueueSize |-> maxQueueSizeOption,
   activeCount |-> 0,
   responseQueue |-> <<>>,
   discussionTimers |-> {},
   discussionLastWatched |-> EmptyMap,
   discussionFailures |-> EmptyMap,
   localCircuitThreshold |-> localCircuitThresholdOption,
   localCircuitOpenUntil |-> EmptyMap,
   maxWatchedDiscussions |-> maxWatchedDiscussionsOption,
   attempts |-> EmptyMap,
   delayed |-> EmptyMap,
   exited |-> FALSE]

\* the state of the agent group while another specification runs
AgentUnused ==
  /\ agent = NewAgent
  /\ entered = EmptyMap
  /\ cleared = EmptyMap
  /\ failed = EmptyMap
  /\ budget = [records |-> 0, env |-> 0, ticks |-> 0]

\* Date.now().toString().slice(-8): the last 8 decimal digits of the clock
generateDiscussionId(now) == now % 100000000

\* the clock of SpecCli advances in steps of 1 ms, at most MaxCliTicks times
MaxCliTicks == 1

\* the ids create can generate within the bound
DiscIds == {generateDiscussionId(t) : t \in 0..MaxCliTicks}

\* the state of the CLI group while another specification runs
CliUnused ==
  /\ files = [id \in DiscIds |-> <<>>]
  /\ watchRepl = {}

\* the grace period between SIGTERM and SIGKILL, in ms
graceMs == 3000

\* options.timeout of the modelled calls, in ms
InvokerTimeout == 2 * graceMs

\* a timer variable holding null, or a timer that is no longer pending
NoTimer == Undefined

\* an exit code of null: the child was ended by a signal
NullCode == Undefined

\* the negative errno libuv reports when the binary cannot be spawned
SpawnFailedCode == 0 - 2

\* a key a result object does not have
Absent == <<"undefined">>

\* the promise returned by the call, before resolve
Pending == [state |-> "pending", ok |-> FALSE, output |-> Absent, error |-> Absent]

\* the closure of new Promise(...) right after spawn and setTimeout: strings
\* are sequences of characters, a timer is the time its callback is due;
\* callCodex has one timer and no flags, timedOut and resolveCalls are history
NewCall(kind) ==
  [kind |-> kind,
   stdout |-> <<>>,
   stderr |-> <<>>,
   settled |-> FALSE,
   timedOut |-> FALSE,
   sentSigkill |-> FALSE,
   exited |-> FALSE,
   timeoutTimer |-> InvokerTimeout,
   graceTimer |-> NoTimer,
   exitCode |-> NullCode,
   exitSignal |-> Null,
   promise |-> Pending,
   resolveCalls |-> 0]

\* the process behind spawn(bin, args): whether kill() may signal it, whether
\* it ignores SIGTERM, the signals delivered to it, how it ended
NewChild(killable, ignoresTerm) ==
  [state |-> "running",
   killable |-> killable,
   ignoresTerm |-> ignoresTerm,
   signals |-> <<>>,
   code |-> NullCode,
   signal |-> Null]

\* the state of the invoker group while another specification runs
InvokerUnused ==
  /\ call = NewCall("claude")
  /\ child = NewChild(TRUE, FALSE)

\* the regular expression of a parser found nothing
NoMatch == <<>>

\* the confidence before the parser returned
NotParsed == Undefined

\* no call of a response parser was made
NoResponse == [kind |-> "none", confidenceMatch |-> NoMatch, confidence |-> NotParsed]

\* no response is parsed
ParserUnused == parsed = NoResponse

\* the state of the client libraries while another specification runs
ClientUnused == InvokerUnused /\ ParserUnused

(***************************************************************************)
(* SpecLog: Discussion.append under concurrent writers                     *)
(***************************************************************************)

\* number of writer processes
NumWriters == 2

Writers == 1..NumWriters

\* the clock advances at most MaxTicks times
MaxTicks == 4

\* longest log the writers build
MaxLogLen == 4

\* acquireFileLock defaults
timeoutMs == 10000

staleMs == 30000

\* the clock advances in steps of the lock timeout
TickMs == timeoutMs

NoLock == [pid |-> 0, mtime |-> 0]

IdleWriter == [pc |-> "idle", start |-> 0, data |-> createMessage(0, 0, Null, Null),
               messages |-> <<>>, fd |-> FALSE]

\* the partial messages the writers pass to append (seq 0, no ts)
LogInputs ==
  {createResponseMessage(0, 0, "claude", 1),
   createFollowupMessage(0, 0, Null),
   createFollowupMessage(0, 0, "claude"),
   createEndMessage(0, 0, "A", "true")}

\* appends that are started and not yet written or failed
InProgress == Cardinality({w \in Writers : writers[w].pc # "idle"})

\* the state of the log group while another specification runs
LogUnused ==
  /\ logFile = <<>>
  /\ lockFile = NoLock
  /\ writers = [w \in Writers |-> IdleWriter]

InitLog ==
  /\ clock = 0
  /\ ClientUnused
  /\ logFile = <<createStartMessage(1, 0, "t", Participants, "ctx")>>
  /\ lockFile = NoLock
  /\ writers = [w \in Writers |-> IdleWriter]
  /\ CliUnused
  /\ AgentUnused

\* time passes
Tick ==
  /\ clock < MaxTicks * TickMs
  /\ clock' = clock + TickMs
  /\ UNCHANGED <<logFile, lockFile, writers, notLogVars>>

\* append(): the file exists; acquireFileLock notes its start time
AppendCall(w, data) ==
  /\ writers[w].pc = "idle"
  /\ Len(logFile) + InProgress < MaxLogLen
  /\ writers' = [writers EXCEPT ![w] = [IdleWriter EXCEPT !.pc = "open", !.start = clock, !.data = data]]
  /\ UNCHANGED <<clock, logFile, lockFile, notLogVars>>

\* fs.openSync(lockPath, 'wx') and the write of pid:now into it
LockOpen(w) ==
  /\ writers[w].pc = "open"
  /\ IF lockFile = NoLock
     THEN /\ lockFile' = [pid |-> w, mtime |-> clock]
          /\ writers' = [writers EXCEPT ![w].pc = "read", ![w].fd = TRUE]
     ELSE /\ writers' = [writers EXCEPT ![w].pc = "stat"]
          /\ UNCHANGED lockFile
  /\ UNCHANGED <<clock, logFile, notLogVars>>

\* EEXIST: fs.statSync(lockPath) and the staleness test
LockStat(w) ==
  /\ writers[w].pc = "stat"
  /\ writers' = [writers EXCEPT ![w].pc =
        IF lockFile # NoLock /\ clock - lockFile.mtime > staleMs
        THEN "unlinkStale" ELSE "deadline"]
  /\ UNCHANGED <<clock, logFile, lockFile, notLogVars>>

\* fs.unlinkSync(lockPath) of the lock found stale; ENOENT falls to the deadline test
LockUnlinkStale(w) ==
  /\ writers[w].pc = "unlinkStale"
  /\ IF lockFile # NoLock
     THEN /\ lockFile' = NoLock
          /\ writers' = [writers EXCEPT ![w].pc = "open"]
     ELSE /\ writers' = [writers EXCEPT ![w].pc = "deadline"]
          /\ UNCHANGED lockFile
  /\ UNCHANGED <<clock, logFile, notLogVars>>

\* the deadline test; on expiry acquireFileLock throws and append's finally runs
\* releaseFileLock with no descriptor, else the writer sleeps and tries again
LockDeadline(w) ==
  /\ writers[w].pc = "deadline"
  /\ writers' = [writers EXCEPT ![w].pc =
        IF clock - writers[w].start >= timeoutMs THEN "release" ELSE "open"]
  /\ UNCHANGED <<clock, logFile, lockFile, notLogVars>>

\* inside the lock: messages = this.readAll(discussionId)
AppendRead(w) ==
  /\ writers[w].pc = "read"
  /\ writers' = [writers EXCEPT ![w].pc = "write", ![w].messages = logFile]
  /\ UNCHANGED <<clock, logFile, lockFile, notLogVars>>

\* seq, round and ts from the log that was read; fs.appendFileSync
AppendWrite(w) ==
  /\ writers[w].pc = "write"
  /\ logFile' = Append(logFile, StampedMessage(writers[w].messages, writers[w].data, clock))
  /\ writers' = [writers EXCEPT ![w].pc = "release"]
  /\ UNCHANGED <<clock, lockFile, notLogVars>>

\* releaseFileLock: close the descriptor if there is one, then
\* unlink lockPath if it exists, whoever made it; append returns or rethrows
LockRelease(w) ==
  /\ writers[w].pc = "release"
  /\ lockFile' = NoLock
  /\ writers' = [writers EXCEPT ![w] = IdleWriter]
  /\ UNCHANGED <<clock, logFile, notLogVars>>

NextLog ==
  \/ Tick
  \/ \E w \in Writers, data \in LogInputs : AppendCall(w, data)
  \/ \E w \in Writers : LockOpen(w)
  \/ \E w \in Writers : LockStat(w)
  \/ \E w \in Writers : LockUnlinkStale(w)
  \/ \E w \in Writers : LockDeadline(w)
  \/ \E w \in Writers : AppendRead(w)
  \/ \E w \in Writers : AppendWrite(w)
  \/ \E w \in Writers : LockRelease(w)

SpecLog == InitLog /\ [][NextLog]_vars

(***************************************************************************)
(* Discussion.getStatus and the atomic view of append                      *)
(***************************************************************************)

\* what messages.find yields when nothing matches: every field undefined
NoMessage == createMessage(Undefined, Undefined, Null, Null)

\* messages.find(m => m.type === type)
FindType(messages, type) ==
  IF \E i \in 1..Len(messages) : messages[i].type = type
  THEN messages[CHOOSE i \in 1..Len(messages) :
                  /\ messages[i].type = type
                  /\ \A j \in 1..(i - 1) : messages[j].type # type]
  ELSE NoMessage

\* getStatus on the records readAll returns; { exists: false } leaves the rest undefined
getStatus(messages) ==
  LET startMsg == FindType(messages, START)
      endMsg == FindType(messages, END)
  IN [exists |-> Len(messages) > 0,
      topic |-> startMsg.topic,
      participants |-> startMsg.participants,
      context |-> IF startMsg.context = Null THEN "{}" ELSE startMsg.context,
      status |-> IF Len(messages) = 0 THEN Null
                 ELSE IF endMsg # NoMessage THEN "ended" ELSE "active",
      messageCount |-> Len(messages),
      currentRound |-> HighestResponseRound(messages),
      startTime |-> startMsg.ts,
      endTime |-> endMsg.ts,
      decision |-> endMsg.decision,
      consensus |-> endMsg.consensus]

\* append when no other process is inside the lock: the file after the call
\* (a missing file makes append throw and leaves nothing behind)
AppendTo(messages, data, now) ==
  IF Len(messages) = 0 THEN messages
  ELSE Append(messages, StampedMessage(messages, data, now))

(***************************************************************************)
(* SpecTorn: the log file as text. The content is a sequence of pieces: a  *)
(* piece is the whole JSON text of a record, a proper prefix of it (the    *)
(* write of the line was cut short), or a newline                          *)
(***************************************************************************)

\* longest content, in pieces
MaxTextLen == 6

\* '\n'
NewLine == [kind |-> "nl", message |-> NoMessage]

\* serializeMessage: JSON.stringify(message)
serializeMessage(message) == <<[kind |-> "json", message |-> message]>>

\* the text appendFileSync left of serializeMessage(message) + '\n' when the
\* process died in the write: part of the JSON text, or all of it without
\* the newline
TornLine(message, whole) ==
  IF whole THEN serializeMessage(message)
  ELSE <<[kind |-> "cut", message |-> message]>>

\* parseMessage: JSON.parse(line.trim()), null when it throws; the text
\* parses when it is the JSON text of one record and nothing else
parseMessage(line) ==
  IF Len(line) = 1 /\ line[1].kind = "json" THEN line[1].message ELSE NoMessage

\* content.split('\n')
RECURSIVE split(_, _)
split(content, line) ==
  IF Len(content) = 0 THEN <<line>>
  ELSE IF Head(content).kind = "nl" THEN <<line>> \o split(Tail(content), <<>>)
  ELSE split(Tail(content), Append(line, Head(content)))

\* readAll: content.trim().split('\n').filter(Boolean).map(parseMessage)
\* .filter(Boolean); the trim removes newlines only, which the first filter
\* drops as empty lines
readAll(content) ==
  LET lines == SelectSeq(split(content, <<>>), LAMBDA line : Len(line) > 0)
      parsedLines == [i \in 1..Len(lines) |-> parseMessage(lines[i])]
  IN SelectSeq(parsedLines, LAMBDA m : m # NoMessage)

InitTorn ==
  /\ clock = 0
  /\ ClientUnused
  /\ logFile = serializeMessage(createStartMessage(1, 0, "t", Participants, "ctx"))
                 \o <<NewLine>>
  /\ lockFile = NoLock
  /\ writers = [w \in Writers |-> IdleWriter]
  /\ CliUnused
  /\ AgentUnused

\* append by a process that holds the lock from acquire to release: readAll,
\* seq and round from what was read, appendFileSync of the line; the message
\* is returned to the caller
TextAppend(w, data) ==
  LET messages == readAll(logFile)
      message == StampedMessage(messages, data, clock)
  IN /\ Len(logFile) + 2 <= MaxTextLen
     /\ logFile' = logFile \o serializeMessage(message) \o <<NewLine>>
     /\ writers' = [writers EXCEPT ![w] =
                      [IdleWriter EXCEPT !.pc = "returned", !.data = message,
                                         !.messages = messages]]
     /\ UNCHANGED <<clock, lockFile, notLogVars>>

\* append by a process that dies inside appendFileSync: part of the line is
\* in the file, nothing is returned
TornAppend(w, data, whole) ==
  LET messages == readAll(logFile)
      message == StampedMessage(messages, data, clock)
  IN /\ Len(logFile) + 1 <= MaxTextLen
     /\ logFile' = logFile \o TornLine(message, whole)
     /\ writers' = [writers EXCEPT ![w] = IdleWriter]
     /\ UNCHANGED <<clock, lockFile, notLogVars>>

NextTorn ==
  \/ \E w \in Writers, data \in LogInputs : TextAppend(w, data)
  \/ \E w \in Writers, data \in LogInputs, whole \in BOOLEAN : TornAppend(w, data, whole)

SpecTorn == InitTorn /\ [][NextTorn]_vars

(***************************************************************************)
(* SpecCli: the mad commands and the Coordinator                           *)
(***************************************************************************)

\* most records the commands leave in the directory, over all logs
MaxCliRecords == 3

RECURSIVE SumLen(_, _)
SumLen(f, ids) ==
  IF ids = {} THEN 0
  ELSE LET id == CHOOSE x \in ids : TRUE
       IN Len(f[id]) + SumLen(f, ids \ {id})

\* the records in the directory
TotalRecords == SumLen(files, DiscIds)

Topics == {"t1", "t2"}

Decisions == {"A", "B"}

InitCli ==
  /\ clock = 0
  /\ ClientUnused
  /\ CliUnused
  /\ LogUnused
  /\ AgentUnused

CliTick ==
  /\ clock < MaxCliTicks
  /\ clock' = clock + 1
  /\ UNCHANGED <<cliVars, notCliVars>>

\* create with the start record numbered from 0
createFromZero(topic, participants, context) ==
  LET discussionId == generateDiscussionId(clock)
  IN /\ TotalRecords < MaxCliRecords
     /\ files' = [files EXCEPT ![discussionId] =
                 <<createStartMessage(0, clock, topic, participants, context)>>]

\* Discussion.create: the start record is written with fs.writeFileSync
create(topic, participants, context) ==
  LET discussionId == generateDiscussionId(clock)
  IN /\ TotalRecords < MaxCliRecords
     /\ files' = [files EXCEPT ![discussionId] =
                 <<createStartMessage(1, clock, topic, participants, context)>>]

\* mad new <topic> [--no-watch]
handleNew(topic, watch) ==
  /\ create(topic, Participants, "cwd")
  /\ watchRepl' = IF watch THEN watchRepl \cup {generateDiscussionId(clock)} ELSE watchRepl
  /\ UNCHANGED <<clock, notCliVars>>

\* Coordinator.createDiscussion
createDiscussion(topic) ==
  /\ create(topic, Participants, Null)
  /\ UNCHANGED <<clock, watchRepl, notCliVars>>

\* the commands below call discussion.append(id, data)
CliAppend(id, data) ==
  /\ TotalRecords < MaxCliRecords
  /\ files' = [files EXCEPT ![id] = AppendTo(files[id], data, clock)]

\* mad ask <id> <question>
handleAsk(id) ==
  /\ CliAppend(id, createFollowupMessage(0, 0, Null))
  /\ UNCHANGED <<clock, watchRepl, notCliVars>>

\* Coordinator.askFollowup: refuses a missing or an ended discussion
askFollowup(id, target) ==
  /\ getStatus(files[id]).exists
  /\ getStatus(files[id]).status # "ended"
  /\ CliAppend(id, createFollowupMessage(0, 0, target))
  /\ UNCHANGED <<clock, watchRepl, notCliVars>>

\* mad respond <id> -f <agent>: the round after the current one
handleRespond(id, from) ==
  /\ CliAppend(id, createResponseMessage(0, 0, from, getStatus(files[id]).currentRound + 1))
  /\ UNCHANGED <<clock, watchRepl, notCliVars>>

\* mad end <id> -d <decision>
handleEnd(id, decision) ==
  /\ CliAppend(id, createEndMessage(0, 0, decision, "true"))
  /\ UNCHANGED <<clock, watchRepl, notCliVars>>

\* mad end all: an end record on every discussion listed as active
handleEndAll(decision) ==
  /\ \E id \in DiscIds : getStatus(files[id]).status = "active"
  /\ TotalRecords + Cardinality({id \in DiscIds : getStatus(files[id]).status = "active"})
       <= MaxCliRecords
  /\ files' = [id \in DiscIds |->
                 IF getStatus(files[id]).status = "active"
                 THEN AppendTo(files[id], createEndMessage(0, 0, decision, "true"), clock)
                 ELSE files[id]]
  /\ UNCHANGED <<clock, watchRepl, notCliVars>>

\* Coordinator.endDiscussion: refuses only a missing discussion
endDiscussion(id, decision, consensus) ==
  /\ getStatus(files[id]).exists
  /\ CliAppend(id, createEndMessage(0, 0, decision, consensus))
  /\ UNCHANGED <<clock, watchRepl, notCliVars>>

\* watch mode, the line 'end <decision>'
WatchEndLine(id, decision) ==
  /\ id \in watchRepl
  /\ CliAppend(id, createEndMessage(0, 0, decision, "true"))
  /\ UNCHANGED <<clock, watchRepl, notCliVars>>

\* watch mode, any other line: a follow-up
WatchFollowupLine(id) ==
  /\ id \in watchRepl
  /\ CliAppend(id, createFollowupMessage(0, 0, Null))
  /\ UNCHANGED <<clock, watchRepl, notCliVars>>

\* watch mode, the 2 s poll: an ended discussion closes the session
WatchPoll(id) ==
  /\ id \in watchRepl
  /\ getStatus(files[id]).status = "ended"
  /\ watchRepl' = watchRepl \ {id}
  /\ UNCHANGED <<clock, files, notCliVars>>

\* watch mode, 'q'
WatchQuit(id) ==
  /\ id \in watchRepl
  /\ watchRepl' = watchRepl \ {id}
  /\ UNCHANGED <<clock, files, notCliVars>>

NextCli ==
  \/ CliTick
  \/ \E topic \in Topics, watch \in BOOLEAN : handleNew(topic, watch)
  \/ \E topic \in Topics : createDiscussion(topic)
  \/ \E id \in DiscIds : handleAsk(id)
  \/ \E id \in DiscIds, target \in {Null, "claude"} : askFollowup(id, target)
  \/ \E id \in DiscIds, from \in {"claude"} : handleRespond(id, from)
  \/ \E id \in DiscIds, decision \in Decisions : handleEnd(id, decision)
  \/ \E decision \in Decisions : handleEndAll(decision)
  \/ \E id \in DiscIds, decision \in Decisions, consensus \in {"true", "false"} :
       endDiscussion(id, decision, consensus)
  \/ \E id \in DiscIds, decision \in Decisions : WatchEndLine(id, decision)
  \/ \E id \in DiscIds : WatchFollowupLine(id)
  \/ \E id \in DiscIds : WatchPoll(id)
  \/ \E id \in DiscIds : WatchQuit(id)

SpecCli == InitCli /\ [][NextCli]_vars

\* the log holds an end record
HasEnd(messages) == \E i \in 1..Len(messages) : messages[i].type = END

\* the follow-up records of a log, by position
FollowupsAt(messages) == {i \in 1..Len(messages) : messages[i].type = FOLLOWUP}

(***************************************************************************)
(* AgentBase (lib/agent-base.js): the turn decision                        *)
(***************************************************************************)

\* the rounds of a discussion are capped in shouldRespondInRound
maxRounds == 5

\* what shouldRespondInRound returns for null
NoTurn == [round |-> 0, trigger |-> NoMessage]

\* list.sort((a, b) => b.seq - a.seq)[0] over the records at positions idx:
\* the greatest seq, the first in file order among equals; undefined on none
LatestBySeq(messages, idx) ==
  IF idx = {} THEN NoMessage
  ELSE messages[CHOOSE i \in idx :
                  \A j \in idx : \/ messages[j].seq < messages[i].seq
                                 \/ (messages[j].seq = messages[i].seq /\ i <= j)]

\* isFollowupTargetedToMe
isFollowupTargetedToMe(message, name) ==
  message.target = Null \/ message.target = name

\* responsesByRound.get(round): who has a response with (round || 1) = round
RespondersIn(messages, round) ==
  {messages[i].from : i \in {j \in 1..Len(messages) :
       messages[j].type = RESPONSE /\ OrOne(messages[j].round) = round}}

\* the highest key of responsesByRound, 0 when there is no response
highestRoundOf(messages) ==
  SetMax({0} \cup {OrOne(messages[i].round) :
                     i \in {j \in 1..Len(messages) : messages[j].type = RESPONSE}})

\* the last response of the highest round (compared on the stored round)
LastResponseIn(messages, round) ==
  LatestBySeq(messages, {i \in 1..Len(messages) :
                           messages[i].type = RESPONSE /\ messages[i].round = round})

SeqToSet(q) == {q[i] : i \in 1..Len(q)}

shouldRespondInRound(messages, status, name) ==
  LET highestRound == highestRoundOf(messages)
      latestFollowupAny == LatestBySeq(messages, FollowupsAt(messages))
      latestFollowup == LatestBySeq(messages,
                          {i \in FollowupsAt(messages) : isFollowupTargetedToMe(messages[i], name)})
      followupRound == IF latestFollowup.round = Undefined \/ latestFollowup.round = 0
                       THEN highestRound + 1 ELSE latestFollowup.round
      respondedInHighestRound == name \in RespondersIn(messages, highestRound)
      roundResponses == RespondersIn(messages, highestRound)
      allResponded == \A p \in SeqToSet(status.participants) : p \in roundResponses
      lastResponse == LastResponseIn(messages, highestRound)
      startMessage == FindType(messages, START)
  IN IF latestFollowupAny # NoMessage /\ latestFollowupAny.target # Null
        /\ latestFollowupAny.target # name
     THEN NoTurn
     ELSE IF latestFollowup # NoMessage /\ name \notin RespondersIn(messages, followupRound)
     THEN [round |-> followupRound, trigger |-> latestFollowup]
     ELSE IF highestRound = 0
     THEN (IF startMessage # NoMessage THEN [round |-> 1, trigger |-> startMessage] ELSE NoTurn)
     ELSE IF ~respondedInHighestRound
     THEN (IF (allResponded \/ Cardinality(roundResponses) >= Len(status.participants) - 1)
              /\ lastResponse # NoMessage /\ highestRound < maxRounds
           THEN [round |-> highestRound, trigger |-> lastResponse]
           ELSE NoTurn)
     ELSE (IF allResponded /\ highestRound < maxRounds /\ lastResponse # NoMessage
           THEN [round |-> highestRound + 1, trigger |-> lastResponse]
           ELSE NoTurn)

(***************************************************************************)
(* AgentBase: admission, finalize, queue, cleanup                          *)
(*                                                                         *)
(* The operators below take and return a world w: the agent's fields       *)
(* (w.agent), the discussion directory (w.files), Date.now() (w.now) and   *)
(* the counters of the execute-response entries (w.entered, w.cleared).    *)
(* An event-loop callback is one action: it applies these to the state.    *)
(***************************************************************************)

\* the name of the agent process modelled (ClaudeAgent, nickname claude)
Self == "claude"

localCircuitCooldownMs == 60000

\* pendingRetries: maxAttempts
maxAttempts == 3

\* the handle of the watcher timer of discussion d, of the scan and the cleanup timer
PollTimer(d) == [kind |-> "poll", id |-> d]

ScanTimer == [kind |-> "scan", id |-> Undefined]

CleanupTimer == [kind |-> "cleanup", id |-> Undefined]

\* a suspended respondToTrigger call: awaiting the child ("child"), the child of
\* the identity retry ("retryChild"), or the backoff sleep of handleTimeoutWithRetry
Attempt(d, round, phase) == [discussionId |-> d, round |-> round, phase |-> phase]

\* bags as maps from element to count
BagAdd(b, e) == MapSet(b, e, MapGet(b, e, 0) + 1)

BagRemove(b, e) == IF b[e] = 1 THEN MapDelete(b, e) ELSE MapSet(b, e, b[e] - 1)

\* discussion.append from the agent: the directory after the call
FilesAppend(w, d, data) ==
  [w EXCEPT !.files[d] = AppendTo(@, data, w.now)]

\* _cleanupDiscussion
\* _cleanupDiscussion that leaves the response queue as it is
cleanupDiscussionKeepsQueue(w, d) ==
  [w EXCEPT !.agent = [@ EXCEPT
     !.timers = @ \ {PollTimer(d)},
     !.discussionTimers = @ \ {d},
     !.watchedDiscussions = MapDelete(@, d),
     !.discussionLastWatched = MapDelete(@, d),
     !.pendingRetries = MapDelete(@, d),
     !.respondedRounds = MapDelete(@, d),
     !.responding = @ \ {d},
     !.discussionFailures = MapDelete(@, d),
     !.localCircuitOpenUntil = MapDelete(@, d)]]

cleanupDiscussion(w, d) ==
  [w EXCEPT !.agent = [@ EXCEPT
     !.timers = @ \ {PollTimer(d)},
     !.discussionTimers = @ \ {d},
     !.watchedDiscussions = MapDelete(@, d),
     !.discussionLastWatched = MapDelete(@, d),
     !.pendingRetries = MapDelete(@, d),
     !.respondedRounds = MapDelete(@, d),
     !.responding = @ \ {d},
     !.discussionFailures = MapDelete(@, d),
     !.localCircuitOpenUntil = MapDelete(@, d),
     !.responseQueue = SelectSeq(@, LAMBDA item : item.discussionId # d)]]

\* respondToTrigger dropping the newest queued entry when the queue is full
AdmitDropNewest(w, d, round) ==
  LET a == w.agent
      openUntil == MapGet(a.localCircuitOpenUntil, d, 0)
      a1 == IF openUntil > 0
            THEN [a EXCEPT !.localCircuitOpenUntil = MapDelete(@, d)] ELSE a
      q == a1.responseQueue
      alreadyQueued == \E i \in 1..Len(q) : q[i].discussionId = d
      shifted == IF Len(q) >= a1.maxQueueSize /\ Len(q) > 0
                 THEN SubSeq(q, 1, Len(q) - 1) ELSE q
      attemptedRounds == MapGet(a1.respondedRounds, d, {})
  IN IF openUntil > w.now
     THEN [w |-> w, code |-> "LOCAL_CIRCUIT_OPEN"]
     ELSE IF a1.activeCount >= a1.maxConcurrent
     THEN [w |-> [w EXCEPT !.agent =
                    IF alreadyQueued THEN a1
                    ELSE [a1 EXCEPT !.responseQueue =
                            Append(shifted, [discussionId |-> d, round |-> round,
                                             queuedAt |-> w.now])]],
           code |-> "QUEUED"]
     ELSE IF d \in a1.responding
     THEN [w |-> [w EXCEPT !.agent = a1], code |-> "ALREADY_RESPONDING"]
     ELSE IF round \in attemptedRounds
     THEN [w |-> [w EXCEPT !.agent = a1], code |-> "ALREADY_ATTEMPTED"]
     ELSE [w |-> [w EXCEPT !.agent = [a1 EXCEPT
                    !.activeCount = @ + 1,
                    !.responding = @ \cup {d},
                    !.respondedRounds = MapSet(@, d, attemptedRounds \cup {round})]],
           code |-> "OK"]

\* respondToTrigger without the test for an entry of the same discussion
AdmitNoDedup(w, d, round) ==
  LET a == w.agent
      openUntil == MapGet(a.localCircuitOpenUntil, d, 0)
      a1 == IF openUntil > 0
            THEN [a EXCEPT !.localCircuitOpenUntil = MapDelete(@, d)] ELSE a
      q == a1.responseQueue
      shifted == IF Len(q) >= a1.maxQueueSize /\ Len(q) > 0 THEN Tail(q) ELSE q
      attemptedRounds == MapGet(a1.respondedRounds, d, {})
  IN IF openUntil > w.now
     THEN [w |-> w, code |-> "LOCAL_CIRCUIT_OPEN"]
     ELSE IF a1.activeCount >= a1.maxConcurrent
     THEN [w |-> [w EXCEPT !.agent =
                    [a1 EXCEPT !.responseQueue =
                            Append(shifted, [discussionId |-> d, round |-> round,
                                             queuedAt |-> w.now])]],
           code |-> "QUEUED"]
     ELSE IF d \in a1.responding
     THEN [w |-> [w EXCEPT !.agent = a1], code |-> "ALREADY_RESPONDING"]
     ELSE IF round \in attemptedRounds
     THEN [w |-> [w EXCEPT !.agent = a1], code |-> "ALREADY_ATTEMPTED"]
     ELSE [w |-> [w EXCEPT !.agent = [a1 EXCEPT
                    !.activeCount = @ + 1,
                    !.responding = @ \cup {d},
                    !.respondedRounds = MapSet(@, d, attemptedRounds \cup {round})]],
           code |-> "OK"]

\* respondToTrigger with activeCount incremented before the capacity test
AdmitCountFirst(w, d, round) ==
  LET a == w.agent
      openUntil == MapGet(a.localCircuitOpenUntil, d, 0)
      a1 == IF openUntil > 0
            THEN [a EXCEPT !.localCircuitOpenUntil = MapDelete(@, d)] ELSE a
      q == a1.responseQueue
      alreadyQueued == \E i \in 1..Len(q) : q[i].discussionId = d
      shifted == IF Len(q) >= a1.maxQueueSize /\ Len(q) > 0 THEN Tail(q) ELSE q
      attemptedRounds == MapGet(a1.respondedRounds, d, {})
  IN IF openUntil > w.now
     THEN [w |-> w, code |-> "LOCAL_CIRCUIT_OPEN"]
     ELSE IF a1.activeCount >= a1.maxConcurrent
     THEN [w |-> [w EXCEPT !.agent =
                    IF alreadyQueued THEN [a1 EXCEPT !.activeCount = @ + 1]
                    ELSE [a1 EXCEPT !.activeCount = @ + 1,
                                    !.responseQueue =
                            Append(shifted, [discussionId |-> d, round |-> round,
                                             queuedAt |-> w.now])]],
           code |-> "QUEUED"]
     ELSE IF d \in a1.responding
     THEN [w |-> [w EXCEPT !.agent = a1], code |-> "ALREADY_RESPONDING"]
     ELSE IF round \in attemptedRounds
     THEN [w |-> [w EXCEPT !.agent = a1], code |-> "ALREADY_ATTEMPTED"]
     ELSE [w |-> [w EXCEPT !.agent = [a1 EXCEPT
                    !.activeCount = @ + 1,
                    !.responding = @ \cup {d},
                    !.respondedRounds = MapSet(@, d, attemptedRounds \cup {round})]],
           code |-> "OK"]

\* AgentBase.respondToTrigger up to its return or throw, without the drain of
\* its catch block: the world after it and the code thrown ("OK": admitted)
Admit(w, d, round) ==
  LET a == w.agent
      openUntil == MapGet(a.localCircuitOpenUntil, d, 0)
      a1 == IF openUntil > 0
            THEN [a EXCEPT !.localCircuitOpenUntil = MapDelete(@, d)] ELSE a
      q == a1.responseQueue
      alreadyQueued == \E i \in 1..Len(q) : q[i].discussionId = d
      shifted == IF Len(q) >= a1.maxQueueSize /\ Len(q) > 0 THEN Tail(q) ELSE q
      attemptedRounds == MapGet(a1.respondedRounds, d, {})
  IN IF openUntil > w.now
     THEN [w |-> w, code |-> "LOCAL_CIRCUIT_OPEN"]
     ELSE IF a1.activeCount >= a1.maxConcurrent
     THEN [w |-> [w EXCEPT !.agent =
                    IF alreadyQueued THEN a1
                    ELSE [a1 EXCEPT !.responseQueue =
                            Append(shifted, [discussionId |-> d, round |-> round,
                                             queuedAt |-> w.now])]],
           code |-> "QUEUED"]
     ELSE IF d \in a1.responding
     THEN [w |-> [w EXCEPT !.agent = a1], code |-> "ALREADY_RESPONDING"]
     ELSE IF round \in attemptedRounds
     THEN [w |-> [w EXCEPT !.agent = a1], code |-> "ALREADY_ATTEMPTED"]
     ELSE [w |-> [w EXCEPT !.agent = [a1 EXCEPT
                    !.activeCount = @ + 1,
                    !.responding = @ \cup {d},
                    !.respondedRounds = MapSet(@, d, attemptedRounds \cup {round})]],
           code |-> "OK"]

\* ClaudeAgent.respondToTrigger after super returned: the execute-response path
\* up to its first await (thinking status, prompt, spawn of the child)
ExecuteStart(w, d, round) ==
  LET w1 == FilesAppend(w, d, createStatusMessage(0, 0, Self, "thinking", round))
  IN [w1 EXCEPT !.agent.attempts = BagAdd(@, Attempt(d, round, "child")),
                !.entered = BagAdd(@, <<d, round>>)]

\* this.respondToTrigger called from the drain loop (a nested drain returns at once)
RespondInDrain(w, d, round) ==
  LET r == Admit(w, d, round)
  IN IF r.code = "OK" THEN ExecuteStart(r.w, d, round) ELSE r.w

\* _tryProcessQueuedItem
tryProcessQueuedItem(w, item) ==
  LET d == item.discussionId
      messages == w.files[d]
      status == getStatus(messages)
      turn == shouldRespondInRound(messages, status, Self)
  IN IF ~status.exists \/ status.status # "active" THEN cleanupDiscussion(w, d)
     ELSE IF Self \notin SeqToSet(status.participants) THEN w
     ELSE IF turn = NoTurn THEN w
     ELSE RespondInDrain(w, d, turn.round)

\* _drainResponseQueue that processes one item and returns
drainResponseQueueOnce(w) ==
  IF w.agent.activeCount < w.agent.maxConcurrent /\ Len(w.agent.responseQueue) > 0
  THEN tryProcessQueuedItem([w EXCEPT !.agent.responseQueue = Tail(@)],
                            Head(w.agent.responseQueue))
  ELSE w

\* _drainResponseQueue, entered with drainingResponseQueue false
RECURSIVE drainResponseQueue(_)
drainResponseQueue(w) ==
  IF w.agent.activeCount < w.agent.maxConcurrent /\ Len(w.agent.responseQueue) > 0
  THEN drainResponseQueue(
         tryProcessQueuedItem([w EXCEPT !.agent.responseQueue = Tail(@)],
                              Head(w.agent.responseQueue)))
  ELSE w

\* this.respondToTrigger called from a timer callback or from a retry
Respond(w, d, round) ==
  LET r == Admit(w, d, round)
  IN IF r.code = "OK" THEN ExecuteStart(r.w, d, round)
     ELSE IF r.code \in {"ALREADY_RESPONDING", "ALREADY_ATTEMPTED"}
     THEN drainResponseQueue(r.w)
     ELSE r.w

\* finalizeResponse
finalizeResponse(w, d, success) ==
  LET a == w.agent
      failures == MapGet(a.discussionFailures, d, 0) + 1
      a1 == [a EXCEPT !.responding = @ \ {d},
                      !.activeCount = IF @ > 0 THEN @ - 1 ELSE 0]
      a2 == IF success
            THEN [a1 EXCEPT !.discussionFailures = MapDelete(@, d),
                            !.localCircuitOpenUntil = MapDelete(@, d)]
            ELSE [a1 EXCEPT !.discussionFailures = MapSet(@, d, failures),
                            !.localCircuitOpenUntil =
                               IF failures >= a.localCircuitThreshold
                               THEN MapSet(@, d, w.now + localCircuitCooldownMs)
                               ELSE @]
      w2 == [w EXCEPT !.agent = a2,
                      !.failed = IF success THEN MapDelete(@, d)
                                 ELSE MapSet(@, d, MapGet(@, d, 0) + 1)]
  IN IF a2.activeCount < a2.maxConcurrent THEN drainResponseQueue(w2) ELSE w2

\* sendResponse (the append succeeds when the file exists)
sendResponse(w, d, round) ==
  IF Len(w.files[d]) > 0
  THEN finalizeResponse(
         [FilesAppend(w, d, createResponseMessage(0, 0, Self, round))
            EXCEPT !.agent.pendingRetries = MapDelete(@, d)], d, TRUE)
  ELSE finalizeResponse(w, d, FALSE)

\* sendError
sendError(w, d, round) ==
  IF Len(w.files[d]) > 0
  THEN finalizeResponse(
         [FilesAppend(w, d, createErrorMessage(0, 0, Self, round))
            EXCEPT !.agent.pendingRetries = MapDelete(@, d)], d, FALSE)
  ELSE finalizeResponse(w, d, FALSE)

(***************************************************************************)
(* AgentBase: watching, polling, scanning                                  *)
(***************************************************************************)

\* getLastActivity: the ts of the last record
getLastActivity(messages) ==
  IF Len(messages) = 0 THEN 0 ELSE messages[Len(messages)].ts

\* listAll().filter(active): the ids of the active discussions
ActiveDiscussions(w) ==
  {d \in DOMAIN w.files : Len(w.files[d]) > 0 /\ getStatus(w.files[d]).status = "active"}

\* the order of the prioritized list: later activity first, then the one
\* watched longest ago; the stable sort keeps listAll's order (id descending)
Before(w, a, b) ==
  LET actA == getLastActivity(w.files[a])
      actB == getLastActivity(w.files[b])
      lwA == MapGet(w.agent.discussionLastWatched, a, 0)
      lwB == MapGet(w.agent.discussionLastWatched, b, 0)
  IN \/ actA > actB
     \/ actA = actB /\ lwA < lwB
     \/ actA = actB /\ lwA = lwB /\ a > b

RECURSIVE SortedBy(_, _)
SortedBy(w, ids) ==
  IF ids = {} THEN <<>>
  ELSE LET first == CHOOSE a \in ids : \A b \in ids \ {a} : Before(w, a, b)
       IN <<first>> \o SortedBy(w, ids \ {first})

\* _getPrioritizedActiveDiscussions
getPrioritizedActiveDiscussions(w) ==
  LET prioritized == SortedBy(w, ActiveDiscussions(w))
  IN IF Len(prioritized) > w.agent.maxWatchedDiscussions
     THEN SubSeq(prioritized, 1, w.agent.maxWatchedDiscussions)
     ELSE prioritized

\* processDiscussion
processDiscussion(w, d) ==
  LET messages == w.files[d]
      status == getStatus(messages)
      turn == shouldRespondInRound(messages, status, Self)
  IN IF ~status.exists THEN w
     ELSE IF Self \notin SeqToSet(status.participants) THEN w
     ELSE IF status.status = "ended" THEN w
     ELSE IF turn = NoTurn THEN w
     ELSE Respond(w, d, turn.round)

\* watchDiscussion
watchDiscussion(w, d) ==
  IF d \in DOMAIN w.agent.watchedDiscussions THEN w
  ELSE processDiscussion(
         [w EXCEPT !.agent = [@ EXCEPT
            !.watchedDiscussions = MapSet(@, d, LastSeq(w.files[d])),
            !.discussionLastWatched = MapSet(@, d, w.now),
            !.timers = @ \cup {PollTimer(d)},
            !.discussionTimers = @ \cup {d}]], d)

\* watchDiscussion for each id of a list, in order
RECURSIVE WatchEach(_, _)
WatchEach(w, ds) ==
  IF Len(ds) = 0 THEN w ELSE WatchEach(watchDiscussion(w, Head(ds)), Tail(ds))

\* watchAllDiscussions
watchAllDiscussions(w) == WatchEach(w, getPrioritizedActiveDiscussions(w))

\* _cleanupDiscussion for each id of a set (the cleanups of two ids commute)
RECURSIVE CleanupEach(_, _)
CleanupEach(w, ds) ==
  IF ds = {} THEN w
  ELSE LET d == CHOOSE x \in ds : TRUE
       IN CleanupEach(cleanupDiscussion(w, d), ds \ {d})

\* status.exists is false or status.status is ended
EndedOrMissing(w, d) ==
  LET status == getStatus(w.files[d])
  IN ~status.exists \/ status.status = "ended"

\* scanForNewDiscussions
scanForNewDiscussions(w) ==
  LET discussions == getPrioritizedActiveDiscussions(w)
      prioritizedIds == SeqToSet(discussions)
      dropped == {d \in DOMAIN w.agent.watchedDiscussions :
                    /\ d \notin prioritizedIds
                    /\ EndedOrMissing(w, d) \/ d \notin w.agent.responding}
  IN WatchEach(CleanupEach(w, dropped), discussions)

\* _cleanupEndedDiscussions
cleanupEndedDiscussions(w) ==
  CleanupEach(w, {d \in DOMAIN w.agent.watchedDiscussions : EndedOrMissing(w, d)})

\* the setTimeout of onNewMessages: a trigger for round of d, run later
Delayed(d, round) == [discussionId |-> d, round |-> round]

\* onNewMessagesNoEnd: onNewMessages without the end check of its loop
onNewMessagesNoEnd(w, d, newMessages) ==
  LET w1 == [w EXCEPT !.agent.watchedDiscussions =
                        MapSet(@, d, newMessages[Len(newMessages)].seq)]
      targeted == {i \in FollowupsAt(newMessages) :
                     isFollowupTargetedToMe(newMessages[i], Self)}
      messages == w.files[d]
      status == getStatus(messages)
      mine == status.status = "active" /\ Self \in SeqToSet(status.participants)
      followupMessage == newMessages[SetMax(targeted)]
      followupRound == IF followupMessage.round \in {Undefined, 0}
                       THEN highestRoundOf(messages) + 1
                       ELSE followupMessage.round
      turn == shouldRespondInRound(messages, status, Self)
  IN IF ~status.exists THEN w1
     ELSE IF targeted # {} /\ mine
     THEN [w1 EXCEPT !.agent.delayed = BagAdd(@, Delayed(d, followupRound))]
     ELSE IF mine /\ turn # NoTurn
     THEN [w1 EXCEPT !.agent.delayed = BagAdd(@, Delayed(d, turn.round))]
     ELSE w1

\* onNewMessages
onNewMessages(w, d, newMessages) ==
  LET w1 == [w EXCEPT !.agent.watchedDiscussions =
                        MapSet(@, d, newMessages[Len(newMessages)].seq)]
      targeted == {i \in FollowupsAt(newMessages) :
                     isFollowupTargetedToMe(newMessages[i], Self)}
      messages == w.files[d]
      status == getStatus(messages)
      mine == status.status = "active" /\ Self \in SeqToSet(status.participants)
      followupMessage == newMessages[SetMax(targeted)]
      followupRound == IF followupMessage.round \in {Undefined, 0}
                       THEN highestRoundOf(messages) + 1
                       ELSE followupMessage.round
      turn == shouldRespondInRound(messages, status, Self)
  IN IF HasEnd(newMessages) THEN cleanupDiscussion(w, d)
     ELSE IF ~status.exists THEN w1
     ELSE IF targeted # {} /\ mine
     THEN [w1 EXCEPT !.agent.delayed = BagAdd(@, Delayed(d, followupRound))]
     ELSE IF mine /\ turn # NoTurn
     THEN [w1 EXCEPT !.agent.delayed = BagAdd(@, Delayed(d, turn.round))]
     ELSE w1

\* pollDiscussion
pollDiscussion(w, d) ==
  LET w1 == [w EXCEPT !.agent.discussionLastWatched = MapSet(@, d, w.now)]
      lastKnownSeq == MapGet(w.agent.watchedDiscussions, d, 0)
      messages == w.files[d]
      currentLastSeq == LastSeq(messages)
      newMessages == SelectSeq(messages, LAMBDA m : m.seq > lastKnownSeq)
  IN IF currentLastSeq > lastKnownSeq
     THEN onNewMessages([w1 EXCEPT !.agent.watchedDiscussions =
                                     MapSet(@, d, currentLastSeq)], d, newMessages)
     ELSE w1

\* handleTimeoutWithRetry up to its await: the retrying status and the start
\* of the backoff, or the error record after maxAttempts
handleTimeoutWithRetry(w, d, round) ==
  LET attempts == MapGet(w.agent.pendingRetries, d, 0) + 1
      w1 == [w EXCEPT !.agent.pendingRetries = MapSet(@, d, attempts)]
  IN IF attempts < maxAttempts
     THEN [FilesAppend(w1, d, createStatusMessage(0, 0, Self, "retrying", round))
             EXCEPT !.agent.attempts = BagAdd(@, Attempt(d, round, "backoff"))]
     ELSE sendError(w1, d, round)

\* handleTimeoutWithRetry after the backoff: the round is removed from the
\* attempted set, the slot released and respondToTrigger called again
retryAfterBackoff(w, d, round) ==
  LET known == d \in DOMAIN w.agent.respondedRounds
      w1 == IF known
            THEN [w EXCEPT !.agent.respondedRounds[d] = @ \ {round},
                           !.cleared = BagAdd(@, <<d, round>>)]
            ELSE w
  IN Respond(finalizeResponse(w1, d, FALSE), d, round)

\* respondToTrigger that retries after every failed identity validation
childDoneRetriesAgain(w, att, result) ==
  LET d == att.discussionId
      round == att.round
      w0 == [w EXCEPT !.agent.attempts = BagRemove(@, att)]
      unlocked == [w0 EXCEPT !.agent.responding = @ \ {d}]
  IN CASE result = "Timeout" -> handleTimeoutWithRetry(unlocked, d, round)
       [] result = "error" -> sendError(unlocked, d, round)
       [] result = "invalid" ->
            [FilesAppend(w0, d, createStatusMessage(0, 0, Self, "retrying", round))
               EXCEPT !.agent.attempts = BagAdd(@, Attempt(d, round, "retryChild"))]
       [] OTHER ->
            sendResponse([unlocked EXCEPT !.agent.pendingRetries = MapDelete(@, d)],
                         d, round)

\* ClaudeAgent.respondToTrigger when the child process of an attempt ends
\* with result: ok, invalid (identity validation fails), Timeout or error
childDone(w, att, result) ==
  LET d == att.discussionId
      round == att.round
      w0 == [w EXCEPT !.agent.attempts = BagRemove(@, att)]
      unlocked == [w0 EXCEPT !.agent.responding = @ \ {d}]
  IN CASE result = "Timeout" -> handleTimeoutWithRetry(unlocked, d, round)
       [] result = "error" -> sendError(unlocked, d, round)
       [] result = "invalid" /\ att.phase = "child" ->
            [FilesAppend(w0, d, createStatusMessage(0, 0, Self, "retrying", round))
               EXCEPT !.agent.attempts = BagAdd(@, Attempt(d, round, "retryChild"))]
       [] result = "invalid" /\ att.phase = "retryChild" -> sendError(unlocked, d, round)
       [] OTHER ->
            sendResponse([unlocked EXCEPT !.agent.pendingRetries = MapDelete(@, d)],
                         d, round)

(***************************************************************************)
(* SpecAgent: one agent process, the user and the other agent              *)
(***************************************************************************)

\* the clock of SpecAgent advances in steps of the circuit cooldown, at most
\* MaxAgentTicks times
AgentTickMs == localCircuitCooldownMs

MaxAgentTicks == 1

\* most records in the directory, over all logs
MaxAgentRecords == 7

MaxShortRecords == 4

\* the participants of the discussions the directory holds
AgentParticipants == [id \in {0, 1} |-> IF id = 0 THEN <<"codex">> ELSE Participants]

\* the discussions the directory holds when the agent process starts
AgentDiscIds == {generateDiscussionId(0), generateDiscussionId(1)}

\* most records the user and the other agent append while the agent runs
MaxEnvRecords == 1

\* the records of a log that the agent process did not write
RECURSIVE EnvCount(_, _)
EnvCount(f, ids) ==
  IF ids = {} THEN 0
  ELSE LET id == CHOOSE x \in ids : TRUE
       IN Cardinality({i \in 1..Len(f[id]) : f[id][i].type # START /\ f[id][i].from # Self})
          + EnvCount(f, ids \ {id})

EnvRecords == EnvCount(files, DOMAIN files)

\* the results of a child process
ChildResults == {"ok", "invalid", "Timeout", "error"}

\* the state the callbacks of the agent read and write
World ==
  [agent |-> agent, files |-> files, now |-> clock,
   entered |-> entered, cleared |-> cleared, failed |-> failed]

\* a callback ran to completion: its world becomes the state
Commit(w) ==
  \E done \in {w} :
    /\ SumLen(done.files, DOMAIN done.files) <= budget.records
    /\ agent' = done.agent
    /\ files' = done.files
    /\ entered' = done.entered
    /\ cleared' = done.cleared
    /\ failed' = done.failed
    /\ UNCHANGED <<clock, watchRepl, logFile, lockFile, writers, clientVars, budget>>

\* the options the model constructs agents with, localCircuitThreshold aside
Options(threshold) ==
  [maxConcurrent |-> maxConcurrentOption,
   maxQueueSize |-> maxQueueSizeOption,
   localCircuitThreshold |-> threshold,
   maxWatchedDiscussions |-> maxWatchedDiscussionsOption]

\* new AgentBase(options)
NewAgentWith(options) ==
  [NewAgent EXCEPT !.maxConcurrent = options.maxConcurrent,
                   !.maxQueueSize = options.maxQueueSize,
                   !.localCircuitThreshold = options.localCircuitThreshold,
                   !.maxWatchedDiscussions = options.maxWatchedDiscussions]

\* the values of localCircuitThreshold the agent of SpecAgent is constructed with
Thresholds == {localCircuitThresholdOption, localCircuitThresholdOption + 1}

\* the directory holds two active discussions and the agent is constructed
InitAgentWith(b, options) ==
  /\ clock = 2
  /\ files = [id \in DiscIds |->
               IF id \in AgentDiscIds
               THEN <<createStartMessage(1, id, "t1", AgentParticipants[id], "cwd")>>
               ELSE <<>>]
  /\ watchRepl = {}
  /\ agent = NewAgentWith(options)
  /\ ClientUnused
  /\ entered = EmptyMap
  /\ cleared = EmptyMap
  /\ failed = EmptyMap
  /\ budget = b
  /\ LogUnused

InitAgent ==
  \E threshold \in Thresholds :
    InitAgentWith([records |-> MaxAgentRecords, env |-> MaxEnvRecords, ticks |-> MaxAgentTicks],
                  Options(threshold))

\* a shorter exploration for the properties checked over every behaviour
InitAgentShort ==
  InitAgentWith([records |-> MaxShortRecords, env |-> MaxShortRecords, ticks |-> MaxAgentTicks],
                Options(localCircuitThresholdOption))

\* time passes
AgentTick ==
  /\ agent.running
  /\ clock < budget.ticks * AgentTickMs
  /\ clock' = clock + AgentTickMs
  /\ UNCHANGED <<logFile, lockFile, writers, clientVars, cliVars, agentVars>>

\* runAgent: agent.start()
AgentStart ==
  /\ ~agent.running
  /\ ~agent.exited
  /\ Commit([watchAllDiscussions([World EXCEPT !.agent.running = TRUE])
               EXCEPT !.agent.timers = @ \cup {ScanTimer, CleanupTimer}])

\* stop() that cancels the scan and cleanup timers only
stopKeepsWatchers(a) ==
  [a EXCEPT !.running = FALSE,
            !.timers = @ \ {ScanTimer, CleanupTimer},
            !.responseQueue = <<>>]

\* stop(): every timer of this.timers is cleared; the attempts in flight and
\* the setTimeout callbacks are left alone
stop(a) ==
  [a EXCEPT !.running = FALSE,
            !.timers = {},
            !.discussionTimers = {},
            !.responseQueue = <<>>]

\* process.exit(0): the pending callbacks, the children's handlers and the maps
\* of the object are gone; the flag, the timers and the queue are kept as the
\* exiting process left them
processExit(a) ==
  [NewAgentWith(a) EXCEPT !.exited = TRUE,
                          !.running = a.running,
                          !.timers = a.timers,
                          !.discussionTimers = a.discussionTimers,
                          !.responseQueue = a.responseQueue]

\* SIGINT or SIGTERM: agent.stop() and process.exit(0)
AgentStop ==
  /\ agent.running
  /\ agent' = processExit(stop(agent))
  /\ entered' = EmptyMap
  /\ cleared' = EmptyMap
  /\ failed' = EmptyMap
  /\ UNCHANGED <<clock, files, watchRepl, logFile, lockFile, writers, clientVars, budget>>

\* the interval callback of watchDiscussion
PollFire(d) ==
  /\ PollTimer(d) \in agent.timers
  /\ agent.running
  /\ Commit(pollDiscussion(World, d))

\* the interval callback of the periodic scan
ScanFire ==
  /\ ScanTimer \in agent.timers
  /\ agent.running
  /\ Commit(scanForNewDiscussions(World))

\* the interval callback of the periodic cleanup
CleanupFire ==
  /\ CleanupTimer \in agent.timers
  /\ agent.running
  /\ agent' = cleanupEndedDiscussions(World).agent
  /\ UNCHANGED <<clock, files, watchRepl, logFile, lockFile, writers, clientVars,
                 entered, cleared, failed, budget>>

\* a setTimeout callback of onNewMessages
DelayedFire(x) ==
  /\ x \in DOMAIN agent.delayed
  /\ LET w == [World EXCEPT !.agent.delayed = BagRemove(@, x)]
     IN Commit(IF ~agent.running \/ x.discussionId \notin DOMAIN agent.watchedDiscussions
               THEN w
               ELSE Respond(w, x.discussionId, x.round))

\* the child process of an attempt ends
ChildDone(att, result) ==
  /\ att \in DOMAIN agent.attempts
  /\ att.phase \in {"child", "retryChild"}
  /\ Commit(childDone(World, att, result))

\* the backoff sleep of handleTimeoutWithRetry ends
BackoffDone(att) ==
  /\ att \in DOMAIN agent.attempts
  /\ att.phase = "backoff"
  /\ Commit(retryAfterBackoff([World EXCEPT !.agent.attempts = BagRemove(@, att)],
                              att.discussionId, att.round))

\* another process appends to a discussion: the user asks a follow-up
EnvFollowup(d, target) ==
  /\ agent.running
  /\ EnvRecords < budget.env
  /\ Len(files[d]) > 0
  /\ ~HasEnd(files[d])
  /\ Commit(FilesAppend(World, d, createFollowupMessage(0, 0, target)))

\* the user ends a discussion
EnvEnd(d) ==
  /\ agent.running
  /\ EnvRecords < budget.env
  /\ Len(files[d]) > 0
  /\ ~HasEnd(files[d])
  /\ Commit(FilesAppend(World, d, createEndMessage(0, 0, "A", "true")))

\* the other agent responds in the round its own shouldRespondInRound gives
EnvResponse(d) ==
  LET messages == files[d]
      turn == shouldRespondInRound(messages, getStatus(messages), "codex")
  IN /\ agent.running
     /\ EnvRecords < budget.env
     /\ Len(messages) > 0
     /\ ~HasEnd(messages)
     /\ turn # NoTurn
     /\ Commit(FilesAppend(World, d, createResponseMessage(0, 0, "codex", turn.round)))

NextAgent ==
  \/ AgentTick
  \/ AgentStart
  \/ AgentStop
  \/ CleanupFire
  \/ \E d \in DOMAIN files : PollFire(d)
  \/ ScanFire
  \/ \E x \in DOMAIN agent.delayed : DelayedFire(x)
  \/ \E att \in DOMAIN agent.attempts, result \in ChildResults : ChildDone(att, result)
  \/ \E att \in DOMAIN agent.attempts : BackoffDone(att)
  \/ \E d \in DOMAIN files : EnvFollowup(d, Null)
  \/ \E d \in DOMAIN files : EnvEnd(d)
  \/ \E d \in DOMAIN files : EnvResponse(d)

SpecAgent == InitAgent /\ [][NextAgent]_vars

SpecAgentShort == InitAgentShort /\ [][NextAgent]_vars

\* setInterval keeps calling the cleanup callback while its timer is set
SpecAgentFair == SpecAgentShort /\ WF_vars(CleanupFire)

\* setInterval keeps calling the scan callback while its timer is set
SpecScanFair == SpecAgentShort /\ WF_vars(ScanFire)

(***************************************************************************)
(* SpecStop: the agent object whose stop() is called and returns, the      *)
(* process staying alive                                                   *)
(***************************************************************************)

\* most records in the directory, over all logs
MaxStopRecords == 5

\* new AgentBase({ localCircuitThreshold: 2 }): one failure leaves the circuit closed
StopOptions == [Options(localCircuitThresholdOption) EXCEPT !.localCircuitThreshold = 2]

InitStop ==
  InitAgentWith([records |-> MaxStopRecords, env |-> MaxEnvRecords, ticks |-> MaxAgentTicks],
                StopOptions)

\* agent.stop() returns to a caller that goes on
StopCall ==
  /\ agent.running
  /\ agent' = stop(agent)
  /\ UNCHANGED <<clock, files, watchRepl, logFile, lockFile, writers, clientVars,
                 entered, cleared, failed, budget>>

NextStop ==
  \/ NextAgent
  \/ StopCall

SpecStop == InitStop /\ [][NextStop]_vars

(***************************************************************************)
(* SpecQueue: the agent with one slot and a queue of three, started over   *)
(* five active discussions it takes part in                                *)
(***************************************************************************)

\* the discussions of the directory, the latest active last
QueueDiscIds == {0, 1, 2, 3, 4}

\* most records in the directory, over all logs
MaxQueueRecords == 8

\* new AgentBase({ maxConcurrent: 1, maxQueueSize: 3 }), the rest by default
QueueOptions ==
  [maxConcurrent |-> 1,
   maxQueueSize |-> 3,
   localCircuitThreshold |-> 5,
   maxWatchedDiscussions |-> 50]

InitQueue ==
  /\ clock = 5
  /\ files = [id \in QueueDiscIds |->
               <<createStartMessage(1, id, "t1", Participants, "cwd")>>]
  /\ watchRepl = {}
  /\ agent = NewAgentWith(QueueOptions)
  /\ ClientUnused
  /\ entered = EmptyMap
  /\ cleared = EmptyMap
  /\ failed = EmptyMap
  /\ budget = [records |-> MaxQueueRecords, env |-> MaxEnvRecords, ticks |-> 0]
  /\ LogUnused

\* the callbacks of the agent and the appends of the others, at one reading of
\* the clock
NextQueue ==
  \/ AgentStart
  \/ AgentStop
  \/ CleanupFire
  \/ \E d \in DOMAIN files : PollFire(d)
  \/ ScanFire
  \/ \E x \in DOMAIN agent.delayed : DelayedFire(x)
  \/ \E att \in DOMAIN agent.attempts, result \in ChildResults : ChildDone(att, result)
  \/ \E att \in DOMAIN agent.attempts : BackoffDone(att)
  \/ \E d \in DOMAIN files : EnvFollowup(d, Null)
  \/ \E d \in DOMAIN files : EnvEnd(d)
  \/ \E d \in DOMAIN files : EnvResponse(d)

SpecQueue == InitQueue /\ [][NextQueue]_vars

(***************************************************************************)
(* SpecConcurrent: the agent with two slots                                *)
(***************************************************************************)

\* new AgentBase({ maxConcurrent: 2, ... })
ConcurrentOptions ==
  [Options(localCircuitThresholdOption) EXCEPT !.maxConcurrent = 2]

\* most records in the directory, over all logs
MaxConcurrentRecords == 6

InitConcurrent ==
  InitAgentWith([records |-> MaxConcurrentRecords, env |-> MaxEnvRecords,
                 ticks |-> MaxAgentTicks],
                ConcurrentOptions)

SpecConcurrent == InitConcurrent /\ [][NextAgent]_vars

(***************************************************************************)
(* SpecLockTimeout: the agent when another process can hold the append     *)
(* lock of a log for the whole timeoutMs of acquireFileLock                *)
(***************************************************************************)

\* new AgentBase({ localCircuitThreshold: 2, ... }): one failure opens no circuit
LockTimeoutOptions ==
  [Options(localCircuitThresholdOption) EXCEPT !.localCircuitThreshold = 2]

\* most records in the directory, over all logs
MaxLockRecords == 5

InitLockTimeout ==
  InitAgentWith([records |-> MaxLockRecords, env |-> MaxEnvRecords,
                 ticks |-> MaxAgentTicks],
                LockTimeoutOptions)

\* sendResponse when discussion.append throws: the catch block
sendResponseCatch(w, d, round) == finalizeResponse(w, d, FALSE)

\* sendError when discussion.append throws: the catch block
sendErrorCatch(w, d, round) == finalizeResponse(w, d, FALSE)

\* handleTimeoutWithRetry when discussion.append throws: the retrying status
\* is appended outside any try, so the exception leaves the method before the
\* backoff and before finalizeResponse; sendError has its own catch
handleTimeoutWithRetryThrows(w, d, round) ==
  LET attempts == MapGet(w.agent.pendingRetries, d, 0) + 1
      w1 == [w EXCEPT !.agent.pendingRetries = MapSet(@, d, attempts)]
  IN IF attempts < maxAttempts
     THEN w1
     ELSE [sendErrorCatch(w1, d, round) EXCEPT !.agent.pendingRetries = MapDelete(@, d)]

\* ClaudeAgent.respondToTrigger when the child of an attempt ends with result
\* and every append of the callback throws after timeoutMs of waiting for the
\* lock; the retrying status of the identity retry is appended inside try/catch
childDoneLockTimeout(w, att, result) ==
  LET d == att.discussionId
      round == att.round
      w0 == [w EXCEPT !.agent.attempts = BagRemove(@, att),
                      !.now = @ + timeoutMs]
      unlocked == [w0 EXCEPT !.agent.responding = @ \ {d}]
  IN CASE result = "Timeout" -> handleTimeoutWithRetryThrows(unlocked, d, round)
       [] result = "error" -> sendErrorCatch(unlocked, d, round)
       [] result = "invalid" /\ att.phase = "child" ->
            [w0 EXCEPT !.agent.attempts = BagAdd(@, Attempt(d, round, "retryChild"))]
       [] result = "invalid" /\ att.phase = "retryChild" -> sendErrorCatch(unlocked, d, round)
       [] OTHER ->
            sendResponseCatch([unlocked EXCEPT !.agent.pendingRetries = MapDelete(@, d)],
                              d, round)

\* the child process of an attempt ends while another process holds the lock
\* of the log; the lock is free again afterwards
ChildDoneLockTimeout(att, result) ==
  /\ att \in DOMAIN agent.attempts
  /\ att.phase \in {"child", "retryChild"}
  /\ clock < budget.ticks * AgentTickMs
  /\ \E done \in {childDoneLockTimeout(World, att, result)} :
       /\ SumLen(done.files, DOMAIN done.files) <= budget.records
       /\ agent' = done.agent
       /\ files' = done.files
       /\ entered' = done.entered
       /\ cleared' = done.cleared
       /\ failed' = done.failed
       /\ clock' = done.now
  /\ UNCHANGED <<watchRepl, logFile, lockFile, writers, clientVars, budget>>

NextLockTimeout ==
  \/ NextAgent
  \/ \E att \in DOMAIN agent.attempts, result \in ChildResults :
       ChildDoneLockTimeout(att, result)

SpecLockTimeout == InitLockTimeout /\ [][NextLockTimeout]_vars

(***************************************************************************)
(* SpecRounds: the agent over one discussion whose log already holds a     *)
(* response in each of the rounds 1..maxRounds                             *)
(***************************************************************************)

\* most records appended to the log while the agent runs
MaxRoundsRecords == 4

\* the log after mad new and n times mad respond --from codex
RECURSIVE RoundsLog(_)
RoundsLog(n) ==
  IF n = 0
  THEN <<createStartMessage(1, 1, "t1", Participants, "cwd")>>
  ELSE LET messages == RoundsLog(n - 1)
       IN AppendTo(messages,
                   createResponseMessage(0, 0, "codex",
                                         getStatus(messages).currentRound + 1),
                   1)

InitRounds ==
  /\ clock = 2
  /\ files = [id \in DiscIds |-> IF id = 1 THEN RoundsLog(maxRounds) ELSE <<>>]
  /\ watchRepl = {}
  /\ agent = NewAgentWith(Options(localCircuitThresholdOption))
  /\ ClientUnused
  /\ entered = EmptyMap
  /\ cleared = EmptyMap
  /\ failed = EmptyMap
  /\ budget = [records |-> Len(RoundsLog(maxRounds)) + MaxRoundsRecords,
               env |-> Len(RoundsLog(maxRounds)) + MaxRoundsRecords,
               ticks |-> 0]
  /\ LogUnused

SpecRounds == InitRounds /\ [][NextQueue]_vars

(***************************************************************************)
(* SpecDialogue: the agent over one discussion in which the two agents     *)
(* have answered in turn, each in the round its shouldRespondInRound gave  *)
(***************************************************************************)

\* most records appended to the log while the agent runs
MaxDialogueRecords == 4

\* the log after mad new and n turns, codex first: the agent whose turn it is
\* appends a response in the round of its shouldRespondInRound, or nothing
RECURSIVE DialogueLog(_)
DialogueLog(n) ==
  IF n = 0
  THEN <<createStartMessage(1, 1, "t1", Participants, "cwd")>>
  ELSE LET messages == DialogueLog(n - 1)
           name == IF n % 2 = 1 THEN "codex" ELSE Self
           turn == shouldRespondInRound(messages, getStatus(messages), name)
       IN IF turn = NoTurn THEN messages
          ELSE AppendTo(messages, createResponseMessage(0, 0, name, turn.round), 1)

InitDialogue ==
  /\ clock = 2
  /\ files = [id \in DiscIds |-> IF id = 1 THEN DialogueLog(2 * maxRounds) ELSE <<>>]
  /\ watchRepl = {}
  /\ agent = NewAgentWith(Options(localCircuitThresholdOption))
  /\ ClientUnused
  /\ entered = EmptyMap
  /\ cleared = EmptyMap
  /\ failed = EmptyMap
  /\ budget = [records |-> Len(DialogueLog(2 * maxRounds)) + MaxDialogueRecords,
               env |-> Len(DialogueLog(2 * maxRounds)) + MaxDialogueRecords,
               ticks |-> 0]
  /\ LogUnused

\* the callbacks the event loop runs: timers fire and children end
AgentCallbacks ==
  \/ \E d \in DOMAIN files : PollFire(d)
  \/ ScanFire
  \/ \E x \in DOMAIN agent.delayed : DelayedFire(x)
  \/ \E att \in DOMAIN agent.attempts, result \in ChildResults : ChildDone(att, result)
  \/ \E att \in DOMAIN agent.attempts : BackoffDone(att)

SpecDialogue == InitDialogue /\ [][NextQueue]_vars /\ WF_vars(AgentCallbacks)

(***************************************************************************)
(* SpecInvoker: one call of callClaude (lib/claude-client.js) or callCodex *)
(* (lib/codex-client.js), its timers and the events of its child process   *)
(***************************************************************************)

\* most characters the child writes, stdout and stderr together
MaxOutput == 2

\* the clock advances in steps of graceMs, at most this many times
MaxInvokerTicks == 4

\* the characters a chunk of output is made of
OutputChars == {" ", "a"}

isWhitespace(ch) == ch = " "

RECURSIVE trimStart(_)
trimStart(str) ==
  IF str # <<>> /\ isWhitespace(Head(str)) THEN trimStart(Tail(str)) ELSE str

RECURSIVE trimEnd(_)
trimEnd(str) ==
  IF str # <<>> /\ isWhitespace(str[Len(str)])
  THEN trimEnd(SubSeq(str, 1, Len(str) - 1))
  ELSE str

\* String.prototype.trim
trim(str) == trimEnd(trimStart(str))

\* the template literal ${code}
CodeText(code) == IF code = NullCode THEN "null" ELSE ToString(code)

Success(output) ==
  [state |-> "fulfilled", ok |-> TRUE, output |-> output, error |-> Absent]

Failure(error) ==
  [state |-> "fulfilled", ok |-> FALSE, output |-> Absent, error |-> error]

TimeoutResult == Failure(<<"Timeout">>)

\* the result both close handlers compute from the exit code and the output
closeResult(code, stdout, stderr) ==
  IF code = 0 /\ trim(stdout) # <<>>
  THEN Success(trim(stdout))
  ELSE Failure(IF trim(stderr) # <<>>
               THEN trim(stderr)
               ELSE <<"Process exited with code ", CodeText(code)>>)

\* resolve of the promise: only the first call settles it
resolve(c, result) ==
  [c EXCEPT !.resolveCalls = @ + 1,
            !.promise = IF @.state = "pending" THEN result ELSE @]

clearTimers(c) == [c EXCEPT !.timeoutTimer = NoTimer, !.graceTimer = NoTimer]

\* resolveOnce without the test of settled
resolveOnceUnguarded(c, result) ==
  resolve(clearTimers([c EXCEPT !.settled = TRUE]), result)

resolveOnce(c, result) ==
  IF c.settled
  THEN c
  ELSE resolve(clearTimers([c EXCEPT !.settled = TRUE]), result)

\* child.on('error') of callClaude
claudeOnError(c, message) ==
  IF c.timedOut
  THEN resolveOnce(clearTimers(c), TimeoutResult)
  ELSE resolveOnce(clearTimers(c), Failure(message))

\* child.on('error') of callCodex
codexOnError(c, message) ==
  resolve([c EXCEPT !.timeoutTimer = NoTimer], Failure(message))

\* the return value of child.kill
killed(i) == i.child.state = "running" /\ i.child.killable

\* child.kill(signal) on i = [call, child]: nothing without a live process;
\* a signal that cannot be delivered emits 'error' before kill returns
kill(i, signal) ==
  IF i.child.state # "running"
  THEN i
  ELSE IF i.child.killable
       THEN [i EXCEPT !.child.signals = Append(@, signal)]
       ELSE [i EXCEPT !.call = IF @.kind = "claude"
                                THEN claudeOnError(@, <<"kill EPERM">>)
                                ELSE codexOnError(@, <<"kill EPERM">>)]

\* the callback of timeoutTimer of callClaude
claudeOnTimeout(i, now) ==
  LET fired == [i EXCEPT !.call.timeoutTimer = NoTimer, !.call.timedOut = TRUE]
  IN [kill(fired, "SIGTERM") EXCEPT !.call.graceTimer = now + graceMs]

\* the callback of graceTimer of callClaude
claudeOnGrace(i) ==
  LET fired == [i EXCEPT !.call.graceTimer = NoTimer]
      sent == IF fired.call.exited
              THEN fired
              ELSE [kill(fired, "SIGKILL") EXCEPT
                      !.call.sentSigkill = killed(fired) \/ @]
  IN [sent EXCEPT !.call = resolveOnce(@, TimeoutResult)]

\* the callback of timer of callCodex
codexOnTimeout(i) ==
  LET fired == [i EXCEPT !.call.timeoutTimer = NoTimer, !.call.timedOut = TRUE]
  IN [kill(fired, "SIGTERM") EXCEPT !.call = resolve(@, TimeoutResult)]

\* child.on('exit') of callClaude
claudeOnExit(c, code, signal) ==
  clearTimers([c EXCEPT !.exited = TRUE, !.exitCode = code, !.exitSignal = signal])

\* child.on('close') of callClaude
claudeOnClose(c, code, signal) ==
  LET done == claudeOnExit(c, code, signal)
  IN IF done.timedOut
     THEN resolveOnce(done, TimeoutResult)
     ELSE resolveOnce(done, closeResult(code, done.stdout, done.stderr))

\* child.on('close') of callCodex
codexOnClose(c, code) ==
  resolve([c EXCEPT !.timeoutTimer = NoTimer],
          closeResult(code, c.stdout, c.stderr))

Invocation == [call |-> call, child |-> child]

\* a call of either invoker on a child of any behaviour
InitInvoker ==
  /\ clock = 0
  /\ \E kind \in {"claude", "codex"} : call = NewCall(kind)
  /\ \E killable \in BOOLEAN, ignoresTerm \in BOOLEAN :
       child = NewChild(killable, ignoresTerm)
  /\ ParserUnused
  /\ LogUnused
  /\ CliUnused
  /\ AgentUnused

\* time passes, never beyond a pending timer
InvokerTick ==
  /\ clock < MaxInvokerTicks * graceMs
  /\ call.timeoutTimer = NoTimer \/ clock < call.timeoutTimer
  /\ call.graceTimer = NoTimer \/ clock < call.graceTimer
  /\ clock' = clock + graceMs
  /\ UNCHANGED <<call, child, notInvokerVars>>

\* child.stdout.on('data')
StdoutData(ch) ==
  /\ child.state \in {"running", "exited"}
  /\ Len(call.stdout) + Len(call.stderr) < MaxOutput
  /\ call' = [call EXCEPT !.stdout = Append(@, ch)]
  /\ UNCHANGED <<clock, child, notInvokerVars>>

\* child.stderr.on('data')
StderrData(ch) ==
  /\ child.state \in {"running", "exited"}
  /\ Len(call.stdout) + Len(call.stderr) < MaxOutput
  /\ call' = [call EXCEPT !.stderr = Append(@, ch)]
  /\ UNCHANGED <<clock, child, notInvokerVars>>

\* the binary cannot be spawned: 'error' on the tick after spawn, no 'exit'
SpawnError ==
  /\ child.state = "running"
  /\ clock = 0
  /\ call.stdout = <<>> /\ call.stderr = <<>>
  /\ child' = [child EXCEPT !.state = "failed", !.code = SpawnFailedCode]
  /\ call' = IF call.kind = "claude"
             THEN claudeOnError(call, <<"spawn ENOENT">>)
             ELSE codexOnError(call, <<"spawn ENOENT">>)
  /\ UNCHANGED <<clock, notInvokerVars>>

\* how a running child can end: by itself with a code, or by a signal that
\* was delivered and that it does not ignore
Exits ==
  {<<0, Null>>, <<1, Null>>}
    \cup {<<NullCode, sig>> : sig \in {sig \in {"SIGTERM", "SIGKILL"} :
            /\ \E k \in DOMAIN child.signals : child.signals[k] = sig
            /\ sig = "SIGTERM" => ~child.ignoresTerm}}

\* the process ends: 'exit'
ChildExit(code, signal) ==
  /\ child.state = "running"
  /\ <<code, signal>> \in Exits
  /\ child' = [child EXCEPT !.state = "exited", !.code = code, !.signal = signal]
  /\ call' = IF call.kind = "claude" THEN claudeOnExit(call, code, signal) ELSE call
  /\ UNCHANGED <<clock, notInvokerVars>>

\* the stdio streams of the ended process are closed: 'close'
ChildClose ==
  /\ child.state \in {"exited", "failed"}
  /\ child' = [child EXCEPT !.state = "closed"]
  /\ call' = IF call.kind = "claude"
             THEN claudeOnClose(call, child.code, child.signal)
             ELSE codexOnClose(call, child.code)
  /\ UNCHANGED <<clock, notInvokerVars>>

\* the timeout of the call expires
TimeoutFire ==
  /\ call.timeoutTimer = clock
  /\ LET done == IF call.kind = "claude"
                 THEN claudeOnTimeout(Invocation, clock)
                 ELSE codexOnTimeout(Invocation)
     IN call' = done.call /\ child' = done.child
  /\ UNCHANGED <<clock, notInvokerVars>>

\* the grace period after SIGTERM expires
GraceFire ==
  /\ call.graceTimer = clock
  /\ LET done == claudeOnGrace(Invocation)
     IN call' = done.call /\ child' = done.child
  /\ UNCHANGED <<clock, notInvokerVars>>

NextInvoker ==
  \/ InvokerTick
  \/ \E ch \in OutputChars : StdoutData(ch)
  \/ \E ch \in OutputChars : StderrData(ch)
  \/ SpawnError
  \/ \E code \in {0, 1, NullCode}, signal \in {Null, "SIGTERM", "SIGKILL"} :
       ChildExit(code, signal)
  \/ ChildClose
  \/ TimeoutFire
  \/ GraceFire

SpecInvoker == InitInvoker /\ [][NextInvoker]_vars

\* pending timers fire when they are due and 'close' follows the end of the
\* process
SpecInvokerFair ==
  SpecInvoker /\ WF_vars(TimeoutFire) /\ WF_vars(GraceFire) /\ WF_vars(ChildClose)

(***************************************************************************)
(* SpecParse: parseClaudeResponse / parseCodexResponse, the confidence     *)
(***************************************************************************)

\* most digits of the number after "confidence:" in a response
MaxDigits == 3

Digits == 0..9

\* what /confidence[:\s]+(\d+(?:\.\d+)?)/i captures in a response: nothing,
\* or the digits of a whole number (fractions are left out of the model)
Captures ==
  {NoMatch} \cup UNION {[1..n -> Digits] : n \in 1..MaxDigits}

\* a confidence is held in hundredths: 0.7 is 70
defaultConfidence == 70

\* parseFloat of a string of digits
RECURSIVE parseFloat(_)
parseFloat(digits) ==
  IF Len(digits) = 0 THEN 0
  ELSE 10 * parseFloat(SubSeq(digits, 1, Len(digits) - 1)) + digits[Len(digits)]

\* the confidence of parseClaudeResponse, in hundredths
parseClaudeResponse(confidenceMatch) ==
  IF confidenceMatch = NoMatch THEN defaultConfidence
  ELSE LET confidence == parseFloat(confidenceMatch)
       IN IF confidence > 1 THEN confidence ELSE 100 * confidence

\* the confidence of parseCodexResponse, in hundredths
parseCodexResponse(confidenceMatch) ==
  IF confidenceMatch = NoMatch THEN defaultConfidence
  ELSE LET confidence == parseFloat(confidenceMatch)
       IN IF confidence > 1 THEN confidence ELSE 100 * confidence

InitParse ==
  /\ clock = 0
  /\ \E kind \in {"claude", "codex"}, confidenceMatch \in Captures :
       parsed = [kind |-> kind, confidenceMatch |-> confidenceMatch,
                 confidence |-> NotParsed]
  /\ InvokerUnused
  /\ LogUnused
  /\ CliUnused
  /\ AgentUnused

\* the agent parses the validated output and passes the confidence to sendResponse
ParseResponse ==
  /\ parsed.kind # "none"
  /\ parsed.confidence = NotParsed
  /\ parsed' = [parsed EXCEPT !.confidence =
                  IF parsed.kind = "claude"
                  THEN parseClaudeResponse(parsed.confidenceMatch)
                  ELSE parseCodexResponse(parsed.confidenceMatch)]
  /\ UNCHANGED notParseVars

NextParse == ParseResponse

SpecParse == InitParse /\ [][NextParse]_vars

(***************************************************************************)
(* Claims                                                                  *)
(***************************************************************************)

\* C1: the seq values of the records in the log file increase by exactly one
\* from each record to the next (strictly increasing, no gap, no duplicate)
C1_SeqContiguous ==
  \A i \in 1..(Len(logFile) - 1) : logFile[i + 1].seq = logFile[i].seq + 1

\* the response records of a log, by position
ResponsesAt(messages) == {i \in 1..Len(messages) : messages[i].type = RESPONSE}

\* C2: in every log, for every round R and participant P there is at most one
\* response record from P with round R
C2_OneResponsePerRound ==
  \A d \in DiscIds : \A i, j \in ResponsesAt(files[d]) :
    (files[d][i].from = files[d][j].from /\ files[d][i].round = files[d][j].round) => i = j

C4_SingleEntry ==
  \A key \in DOMAIN entered : entered[key] <= 1 + MapGet(cleared, key, 0)

\* C5: every follow-up appended without a caller-supplied round is stored with
\* round = max(rounds of the response records before it in the log, 0) + 1
C5_FollowupRound ==
  \A i \in FollowupsAt(logFile) :
    logFile[i].round = HighestResponseRound(SubSeq(logFile, 1, i - 1)) + 1

\* C6: two follow-ups appended to one discussion without a caller-supplied
\* round are never stored with the same round
C6_FollowupsDistinctRounds ==
  \A id \in DiscIds :
    \A i, j \in FollowupsAt(files[id]) :
      i # j => files[id][i].round # files[id][j].round

\* the watcher timer of d is cleared and removed from discussionTimers
Released(a, d) == PollTimer(d) \notin a.timers /\ d \notin a.discussionTimers

\* C7: once a watched discussion's log holds an end record, the poll that
\* observes it and every cleanup tick leave its watcher timer released, and
\* with the cleanup timer firing the timer is eventually released
C7_TimerReleasedAfterEnd ==
  /\ [][\A d \in AgentDiscIds :
          (HasEnd(files[d]) /\ (PollFire(d) \/ CleanupFire)) => Released(agent', d)]_vars
  /\ \A d \in AgentDiscIds : HasEnd(files[d]) ~> Released(agent, d)

\* a discussion the agent entered has ended and its watcher is released
C7_Witness ==
  \E d \in AgentDiscIds :
    /\ HasEnd(files[d])
    /\ agent.running
    /\ <<d, 1>> \in DOMAIN entered
    /\ Released(agent, d)

\* C8: a discussion log holds at most one end record
C8_SingleEnd ==
  \A id \in DiscIds :
    Cardinality({i \in 1..Len(files[id]) : files[id][i].type = END}) <= 1

\* the part of the derived status C9 speaks of
StatusView(messages) ==
  LET st == getStatus(messages)
  IN <<st.status, st.decision, st.consensus, st.endTime, st.currentRound,
       st.topic, st.participants, st.context>>

\* C9: once a log holds an end record, records appended to it leave the
\* derived status (flag, decision, consensus, end time, current round, topic,
\* participants, context) as it was
C9_StatusFrozenAfterEnd ==
  [][\A id \in DiscIds :
       (HasEnd(files[id]) /\ HasEnd(files'[id])) =>
         StatusView(files'[id]) = StatusView(files[id])]_vars

\* s is a prefix of t
IsPrefix(s, t) == Len(s) <= Len(t) /\ SubSeq(t, 1, Len(s)) = s

\* C10: a step never replaces a log file that exists: create on an id whose
\* file exists fails and leaves the file as it is
C10_CreateKeepsExisting ==
  [][\A id \in DiscIds :
       Len(files[id]) > 0 => IsPrefix(files[id], files'[id])]_vars

\* C11: a log that appears holds exactly the start record with seq 1; in every
\* log the first record is the start record with seq 1 and no other record is
\* a start record, and a step that adds records leaves the first record as it is
C11_ExactlyOneStart ==
  /\ [](\A id \in DiscIds :
         Len(files[id]) > 0 =>
           /\ files[id][1].type = START
           /\ files[id][1].seq = 1
           /\ \A i \in 2..Len(files[id]) : files[id][i].type # START)
  /\ [][\A id \in DiscIds :
          /\ (Len(files[id]) = 0 /\ Len(files'[id]) > 0) =>
                \E topic \in Topics, context \in {"cwd", Null} :
                  files'[id] = <<createStartMessage(1, clock, topic, Participants, context)>>
          /\ (Len(files[id]) > 0 /\ Len(files'[id]) > Len(files[id])) =>
                files'[id][1] = files[id][1]]_vars

\* a log with a follow-up or a response, and an end record, after its start
\* record
C11_Witness ==
  \E id \in DiscIds :
    /\ Len(files[id]) >= 3
    /\ FollowupsAt(files[id]) # {} \/ ResponsesAt(files[id]) # {}
    /\ HasEnd(files[id])

\* the response records of name with the stored round
ResponsesOf(messages, name, round) ==
  {i \in ResponsesAt(messages) : messages[i].from = name /\ messages[i].round = round}

\* the claim of C12 on one log, with the status getStatus derives from it
TargetedFollowupRule(messages) ==
  LET last == messages[SetMax(FollowupsAt(messages))]
  IN (FollowupsAt(messages) # {} /\ last.target # Null) =>
       \A name \in SeqToSet(Participants) :
         LET turn == shouldRespondInRound(messages, getStatus(messages), name)
         IN IF name # last.target THEN turn = NoTurn
            ELSE ResponsesOf(messages, name, last.round) = {} =>
                   turn = [round |-> last.round, trigger |-> last]

\* C12: when the latest follow-up of a log carries a target, shouldRespondInRound
\* returns null for every other agent, and the follow-up with its stored round
\* for the target as long as the target has no response in that round
C12_TargetedFollowup == TargetedFollowupRule(logFile)

\* C13: the circuit of a discussion opens exactly in a step whose failed
\* finalize brings the failures since the last successful finalize to
\* localCircuitThreshold or more, and a successful finalize leaves neither a
\* failure count nor a circuit entry
C13_CircuitOpensAtThreshold ==
  [][\A d \in AgentDiscIds :
       LET before == MapGet(failed, d, 0)
           after == MapGet(failed', d, 0)
           openBefore == MapGet(agent.localCircuitOpenUntil, d, 0)
           openAfter == MapGet(agent'.localCircuitOpenUntil, d, 0)
       IN /\ (/\ after > before
               /\ after >= agent.localCircuitThreshold
               /\ d \in DOMAIN agent'.watchedDiscussions)
                => openAfter = clock + localCircuitCooldownMs
          /\ openAfter > openBefore
                => after > before /\ after >= agent.localCircuitThreshold
          /\ (before > 0 /\ after = 0 /\ agent'.running)
                => /\ d \notin DOMAIN agent'.discussionFailures
                   /\ d \notin DOMAIN agent'.localCircuitOpenUntil]_vars

\* the execute path was entered for round of d in this step
Entered(d, round) ==
  MapGet(entered', <<d, round>>, 0) = MapGet(entered, <<d, round>>, 0) + 1

\* C14: while the circuit of a discussion is open no trigger for it enters the
\* execute path; the first trigger after the cooldown expired, with a free slot,
\* removes the circuit entry and enters the execute path
C14_CircuitCooldown ==
  [][\A x \in DOMAIN agent.delayed :
       LET d == x.discussionId
           openUntil == MapGet(agent.localCircuitOpenUntil, d, 0)
       IN (/\ DelayedFire(x)
           /\ agent.running
           /\ d \in DOMAIN agent.watchedDiscussions
           /\ openUntil > 0)
            => IF openUntil > clock
               THEN /\ entered' = entered
                    /\ MapGet(agent'.localCircuitOpenUntil, d, 0) = openUntil
               ELSE (agent.activeCount < agent.maxConcurrent /\ d \notin agent.responding)
                      => /\ Entered(d, x.round)
                         /\ d \notin DOMAIN agent'.localCircuitOpenUntil]_vars

\* the discussion ids of the queued entries, oldest first
QueueIds(a) == [i \in 1..Len(a.responseQueue) |-> a.responseQueue[i].discussionId]

\* the execute path was entered for some round of d in this step
EnteredAny(d) ==
  \E key \in DOMAIN entered' :
    key[1] = d /\ entered'[key] > MapGet(entered, key, 0)

\* C15: a trigger rejected for capacity whose discussion is not queued, with the
\* queue full, removes exactly the head and appends (D, R, now) at the tail; an
\* entry is taken for admission only after every older entry has left the
\* queue; five discussions triggered at once with one slot and a queue of three
\* leave one active, a queue of three, and the second discussion evicted
C15_FifoEviction ==
  [][/\ \A x \in DOMAIN agent.delayed :
          LET d == x.discussionId
              q == agent.responseQueue
          IN (/\ DelayedFire(x)
              /\ agent.running
              /\ d \in DOMAIN agent.watchedDiscussions
              /\ MapGet(agent.localCircuitOpenUntil, d, 0) <= clock
              /\ agent.activeCount >= agent.maxConcurrent
              /\ \A i \in 1..Len(q) : q[i].discussionId # d
              /\ Len(q) = agent.maxQueueSize)
               => /\ agent'.responseQueue =
                       Append(Tail(q), [discussionId |-> d, round |-> x.round,
                                        queuedAt |-> clock])
                  /\ entered' = entered
     /\ \A i \in 1..Len(agent.responseQueue) :
          EnteredAny(agent.responseQueue[i].discussionId)
            => \A j \in 1..(i - 1) :
                 agent.responseQueue[j] \notin SeqToSet(agent'.responseQueue)
     /\ AgentStart
          => /\ agent'.activeCount = 1
             /\ DOMAIN entered' = {<<4, 1>>}
             /\ QueueIds(agent') = <<2, 1, 0>>]_vars

\* after the start, a trigger of the active discussion evicted the head of the
\* full queue, and the drain then admitted the next entry
C15_Witness ==
  /\ QueueIds(agent) = <<0, 4>>
  /\ <<4, 1>> \in DOMAIN entered
  /\ <<1, 1>> \in DOMAIN entered
  /\ <<2, 1>> \notin DOMAIN entered

\* C16: the response queue holds at most one entry per discussion, and a
\* trigger for a discussion that is queued changes neither the queue nor the
\* attempts
C16_QueueDedup ==
  /\ [](\A i, j \in 1..Len(agent.responseQueue) :
          agent.responseQueue[i].discussionId = agent.responseQueue[j].discussionId
            => i = j)
  /\ [][\A x \in DOMAIN agent.delayed :
          (/\ DelayedFire(x)
           /\ agent.running
           /\ x.discussionId \in SeqToSet(QueueIds(agent)))
            => /\ agent'.responseQueue = agent.responseQueue
               /\ agent'.activeCount = agent.activeCount
               /\ entered' = entered]_vars

\* a follow-up reached a queued discussion, the poll saw it and its trigger ran
C16_Witness ==
  /\ QueueIds(agent) = <<2, 1, 0>>
  /\ FollowupsAt(files[2]) # {}
  /\ MapGet(agent.watchedDiscussions, 2, 0) = LastSeq(files[2])
  /\ agent.delayed = EmptyMap
  /\ agent.activeCount = agent.maxConcurrent

\* the last record of d after the step is new, from the agent, of this type and round
Appended(d, type, round) ==
  /\ Len(files'[d]) = Len(files[d]) + 1
  /\ files'[d][Len(files'[d])].type = type
  /\ files'[d][Len(files'[d])].from = Self
  /\ files'[d][Len(files'[d])].round = round

\* C17: after the first and the second timeout of a discussion a retrying
\* status is appended and, when the backoff ends, the same round enters the
\* execute path again; the third timeout appends one error record, deletes
\* pendingRetries[D] and starts nothing; a round is entered at most maxAttempts
\* times
C17_TimeoutRetryChain ==
  /\ [](\A key \in DOMAIN entered : entered[key] <= maxAttempts)
  /\ [][\A att \in DOMAIN agent.attempts :
          LET d == att.discussionId
              attempts == MapGet(agent.pendingRetries, d, 0) + 1
          IN /\ (ChildDone(att, "Timeout") /\ attempts < maxAttempts)
                  => /\ Appended(d, STATUS, att.round)
                     /\ files'[d][Len(files'[d])].status = "retrying"
                     /\ Attempt(d, att.round, "backoff") \in DOMAIN agent'.attempts
             /\ BackoffDone(att) => Entered(d, att.round)
             /\ (ChildDone(att, "Timeout") /\ attempts >= maxAttempts)
                  => /\ Appended(d, ERROR, att.round)
                     /\ d \notin DOMAIN agent'.pendingRetries
                     /\ ~Entered(d, att.round)]_vars

\* the signals delivered to the child include sig
Delivered(sig) == \E k \in DOMAIN child.signals : child.signals[k] = sig

\* C18: in both invokers the expiry of the timeout delivers SIGTERM to a
\* running child; a child that is still running once the grace period of 3 s
\* has passed has been sent SIGKILL; SIGKILL is only ever sent at the end of
\* the grace period to a child that has not exited
C18_TermThenKill ==
  /\ []((/\ call.timedOut
         /\ child.killable
         /\ child.state = "running"
         /\ clock > InvokerTimeout + graceMs) => Delivered("SIGKILL"))
  /\ [][/\ (TimeoutFire /\ child.state = "running" /\ child.killable)
             => child'.signals = <<"SIGTERM">>
        /\ (Delivered("SIGKILL")' /\ ~Delivered("SIGKILL"))
             => /\ GraceFire
                /\ clock = InvokerTimeout + graceMs
                /\ child.state = "running"
                /\ ~call.exited]_vars

\* the promise of the call is settled
Resolved == call.promise.state = "fulfilled"

C20_ResultFunction ==
  Resolved =>
    IF call.timedOut
    THEN call.promise =
           [state |-> "fulfilled", ok |-> FALSE, output |-> Absent,
            error |-> <<"Timeout">>]
    ELSE IF child.code = 0 /\ trim(call.stdout) # <<>>
         THEN /\ call.promise.ok
              /\ call.promise.output = trim(call.stdout)
              /\ call.promise.error = Absent
         ELSE /\ ~call.promise.ok
              /\ call.promise.output = Absent
              /\ call.promise.error =
                   IF child.code = SpawnFailedCode
                   THEN <<"spawn ENOENT">>
                   ELSE IF trim(call.stderr) # <<>>
                        THEN trim(call.stderr)
                        ELSE <<"Process exited with code ", CodeText(child.code)>>

\* C21: while a writer holds the descriptor of the lock file it created and the
\* file's mtime is not older than staleMs, the lock file stays as it is until
\* that writer's own releaseFileLock: no other writer creates or removes it
C21_LockIsMutex ==
  [][\A w \in Writers :
       (/\ writers[w].fd
        /\ lockFile # NoLock
        /\ lockFile.pid = w
        /\ clock - lockFile.mtime <= staleMs)
         => (lockFile' = lockFile \/ LockRelease(w))]_vars

\* C22: stop() leaves running false, timers and discussionTimers empty and
\* responseQueue empty, and does not touch the attempts in flight; once the
\* agent is not running no poll, scan or cleanup callback does anything
C22_StopCancelsEverything ==
  /\ [](agent.exited => /\ ~agent.running
                         /\ agent.timers = {}
                         /\ agent.discussionTimers = {}
                         /\ agent.responseQueue = <<>>)
  /\ [][/\ AgentStop => stop(agent).attempts = agent.attempts
        /\ ~agent.running =>
             ~(ScanFire \/ CleanupFire \/ \E d \in DOMAIN files : PollFire(d))]_vars

\* C22 witness: the agent was stopped while a response attempt was in flight
C22_Witness ==
  /\ agent.exited
  /\ \E d \in DOMAIN files :
       /\ Len(files[d]) > 1
       /\ files[d][Len(files[d])].type = STATUS
       /\ files[d][Len(files[d])].status = "thinking"
       /\ files[d][Len(files[d])].from = Self

\* the map m without the keys in S
MapWithout(m, S) == [x \in (DOMAIN m) \ S |-> m[x]]

\* the discussions a step stops watching
Gone == (DOMAIN agent.watchedDiscussions) \ (DOMAIN agent'.watchedDiscussions)

\* a step of one of the callbacks that end with _cleanupDiscussion: the poll
\* that reads an end record, the periodic cleanup
CleanupStep == CleanupFire \/ \E d \in DOMAIN files : PollFire(d)

C24_RoundsCapped ==
  /\ \A key \in DOMAIN entered : key[2] <= maxRounds
  /\ \A d \in DOMAIN files : \A i \in DOMAIN files[d] :
       (files[d][i].type = RESPONSE /\ files[d][i].from = Self)
         => files[d][i].round <= maxRounds

\* the attempts of the agent for d between admission and finalize
InFlight(d) == {att \in DOMAIN agent.attempts : att.discussionId = d}

\* C25: at most one response attempt per discussion is in flight: the child
\* runs, identity retries and backoffs of a discussion belong to one attempt
C25_OneAttemptPerDiscussion ==
  \A d \in DOMAIN files :
    /\ Cardinality(InFlight(d)) <= 1
    /\ \A att \in InFlight(d) : agent.attempts[att] = 1

\* C26: the confidence handed to the response record lies in [0,1]
\* (0..100 hundredths), and is 0.7 when the response names none
C26_ConfidenceInUnitInterval ==
  parsed.confidence # NotParsed
    => /\ 0 <= parsed.confidence /\ parsed.confidence <= 100
       /\ parsed.confidenceMatch = NoMatch => parsed.confidence = defaultConfidence

\* the agent's log of d holds an error record for round and no retrying
\* status for it: the attempt ended in sendError without any retry
ErrorWithoutRetry(d, round) ==
  /\ \E i \in DOMAIN files[d] :
       /\ files[d][i].type = ERROR
       /\ files[d][i].from = Self
       /\ files[d][i].round = round
  /\ ~\E i \in DOMAIN files[d] :
        /\ files[d][i].type = STATUS
        /\ files[d][i].from = Self
        /\ files[d][i].status = "retrying"
        /\ files[d][i].round = round

\* C27: a round that ended with an error record and without a retry is
\* entered at most once by an agent process
C27_ErrorRoundNotRepeated ==
  \A key \in DOMAIN entered :
    ErrorWithoutRetry(key[1], key[2]) => entered[key] <= 1

\* the records of the agent in the log f of kind type for round
RecordsOf(f, type, round) ==
  {i \in DOMAIN f : f[i].type = type /\ f[i].from = Self /\ f[i].round = round}

\* C28: a first invalid output appends one retrying status and starts the one
\* retry child in place; a second invalid output appends one error record and
\* no response, and the attempt has no further child
C28_IdentityRetryOnce ==
  [][\A att \in DOMAIN agent.attempts :
       LET d == att.discussionId
           round == att.round
       IN /\ (att.phase = "child" /\ ChildDone(att, "invalid"))
               => /\ files' = [files EXCEPT ![d] =
                     AppendTo(@, createStatusMessage(0, 0, Self, "retrying", round), clock)]
                  /\ agent' = [agent EXCEPT !.attempts =
                       BagAdd(BagRemove(@, att), Attempt(d, round, "retryChild"))]
                  /\ entered' = entered
          /\ (att.phase = "retryChild" /\ ChildDone(att, "invalid"))
               => /\ Cardinality(RecordsOf(files'[d], ERROR, round))
                       = Cardinality(RecordsOf(files[d], ERROR, round)) + 1
                  /\ RecordsOf(files'[d], RESPONSE, round) = RecordsOf(files[d], RESPONSE, round)
                  /\ RecordsOf(files'[d], STATUS, round) = RecordsOf(files[d], STATUS, round)
                  /\ \A a2 \in DOMAIN agent'.attempts :
                        ~(a2.discussionId = d /\ a2.round = round)
                  /\ MapGet(entered', <<d, round>>, 0) = MapGet(entered, <<d, round>>, 0)]_vars

\* the second output of an attempt was rejected: its log holds the thinking and
\* the retrying status and the error record of the round, and the attempt is over
C28_Witness ==
  \E d \in DOMAIN files : \E key \in DOMAIN entered : \E round \in {key[2]} :
    /\ key[1] = d
    /\ entered[key] = 1
    /\ Cardinality(RecordsOf(files[d], STATUS, round)) = 2
    /\ Cardinality(RecordsOf(files[d], ERROR, round)) = 1
    /\ RecordsOf(files[d], RESPONSE, round) = {}
    /\ ~\E att \in DOMAIN agent.attempts : att.discussionId = d

\* the append of the response of round failed in d: the round was entered,
\* its attempt is over and the log holds neither a response nor an error for it
LockTimeoutFailed(d, round) ==
  /\ MapGet(entered, <<d, round>>, 0) >= 1
  /\ InFlight(d) = {}
  /\ RecordsOf(files[d], RESPONSE, round) = {}
  /\ RecordsOf(files[d], ERROR, round) = {}

\* C29: after the append of a response failed on the lock deadline the round
\* is attempted again: the next trigger for it that finds the agent running,
\* the discussion watched, the circuit closed and a slot free is admitted
C29_LockTimeoutRetried ==
  [][\A x \in DOMAIN agent.delayed :
       (/\ DelayedFire(x)
        /\ LockTimeoutFailed(x.discussionId, x.round)
        /\ agent.running
        /\ x.discussionId \in DOMAIN agent.watchedDiscussions
        /\ x.discussionId \notin DOMAIN agent.localCircuitOpenUntil
        /\ agent.activeCount < agent.maxConcurrent)
         => MapGet(entered', <<x.discussionId, x.round>>, 0)
              = MapGet(entered, <<x.discussionId, x.round>>, 0) + 1]_vars

\* the ids of the prioritized list a start or scan callback computes
TopWatched == SeqToSet(getPrioritizedActiveDiscussions(World))

\* C30: after start and after every scan each watched discussion is in the
\* prioritized list or in responding; the watched discussions that are not in
\* responding never outnumber maxWatchedDiscussions; and a scan keeps a
\* discussion that is active and has an attempt in flight
C30_WatchedWithinTop ==
  /\ [](Cardinality(DOMAIN agent.watchedDiscussions \ agent.responding)
          <= agent.maxWatchedDiscussions)
  /\ [][/\ ((AgentStart \/ ScanFire)
              => (\A d \in DOMAIN agent'.watchedDiscussions :
                    d \in TopWatched \/ d \in agent'.responding))
         /\ (ScanFire
              => (\A d \in DOMAIN agent.watchedDiscussions :
                    (InFlight(d) # {} /\ ~EndedOrMissing(World, d))
                      => d \in DOMAIN agent'.watchedDiscussions))]_vars

\* C31: while the agent runs, every discussion is eventually watched, unless
\* it stops being active or the agent stops
C31_NoStarvation ==
  \A d \in AgentDiscIds :
    agent.running
      ~> \/ d \in DOMAIN agent.watchedDiscussions
         \/ d \notin ActiveDiscussions(World)
         \/ ~agent.running

\* the retrying status records of the agent in the log f for round
RetryingOf(f, round) == {i \in RecordsOf(f, STATUS, round) : f[i].status = "retrying"}

\* C32: a round that was entered, has no attempt in flight and no response
\* record of the agent has an error record or a retrying status of the agent
C32_NoSilentEnd ==
  \A key \in DOMAIN entered :
    (/\ ~\E att \in InFlight(key[1]) : att.round = key[2]
     /\ RecordsOf(files[key[1]], RESPONSE, key[2]) = {})
      => \/ RecordsOf(files[key[1]], ERROR, key[2]) # {}
         \/ RetryingOf(files[key[1]], key[2]) # {}

\* the attempts that passed admission and are not finalized, with multiplicity
RECURSIVE BagSize(_)
BagSize(b) ==
  IF DOMAIN b = {} THEN 0
  ELSE LET e == CHOOSE x \in DOMAIN b : TRUE
       IN b[e] + BagSize(MapDelete(b, e))

\* C33: activeCount is the number of attempts admitted and not yet finalized,
\* and with no attempt in flight no discussion is in responding
C33_NoSlotLeak ==
  /\ agent.activeCount = BagSize(agent.attempts)
  /\ DOMAIN agent.attempts = {} => agent.responding = {}

\* C34: between callbacks a non-empty response queue means that every slot
\* is taken: each release of a slot drains the queue until the slots are full
\* or the queue is empty
C34_WorkConservation ==
  Len(agent.responseQueue) > 0 => agent.activeCount = agent.maxConcurrent

\* a second discussion was entered out of the queue, after the attempt of the
\* first released its slot, and other discussions still wait in the queue
C34_Witness ==
  /\ Cardinality({key[1] : key \in DOMAIN entered}) >= 2
  /\ Len(agent.responseQueue) > 0
  /\ agent.activeCount = agent.maxConcurrent

\* C35: the releaseFileLock of an append whose acquireFileLock threw on the
\* deadline (the writer has no descriptor) leaves the log file and the lock
\* file as they are
C35_FailedAppendLeavesFiles ==
  [][\A w \in Writers :
       (LockRelease(w) /\ ~writers[w].fd)
         => (lockFile' = lockFile /\ logFile' = logFile)]_vars

\* C36: in no log does a response record of the agent come after an end
\* record, also when the end was appended while the child process of the
\* attempt ran or while its backoff was pending
C36_NoResponseAfterEnd ==
  \A d \in AgentDiscIds :
    \A i \in 1..Len(files[d]) :
      \A j \in (i + 1)..Len(files[d]) :
        files[d][i].type = END =>
          ~(files[d][j].type = RESPONSE /\ files[d][j].from = Self)

\* C37: while the agent stays stopped, no step enters the execute path of a
\* response attempt (no admission, no child process started) and the
\* response queue stays empty
C37_NoAdmissionAfterStop ==
  [][(~agent.running /\ ~agent'.running)
       => (entered' = entered /\ agent'.responseQueue = <<>>)]_vars

\* the run of the agent over d is undisturbed: no end record, no follow-up,
\* no failed attempt, and room for records
Undisturbed(d) ==
  /\ agent.running
  /\ ~HasEnd(files[d])
  /\ FollowupsAt(files[d]) = {}
  /\ failed = EmptyMap
  /\ RecordsOf(files[d], ERROR, maxRounds) = {}
  /\ TotalRecords < budget.records

\* C38: in an undisturbed discussion, when another participant has a
\* response in a round R <= maxRounds, the running agent eventually has a
\* response in round R
C38_RoundCompletion ==
  \A d \in DiscIds : \A R \in 1..maxRounds :
    (Undisturbed(d) /\ RespondersIn(files[d], R) \ {Self} # {})
      ~> (Self \in RespondersIn(files[d], R) \/ ~Undisturbed(d))

\* C39: the record a successful append returned is among the records
\* readAll yields, with the seq the append gave it, also when the content
\* had a partial last line without a newline when the append was made
C39_TornWriteContained ==
  \A w \in Writers :
    writers[w].pc = "returned" =>
      \E i \in 1..Len(readAll(logFile)) : readAll(logFile)[i] = writers[w].data

\* the agent a holds no per-discussion runtime entry for d
NoRuntimeEntry(a, d) ==
  /\ d \notin DOMAIN a.pendingRetries
  /\ d \notin DOMAIN a.respondedRounds
  /\ d \notin a.responding
  /\ d \notin DOMAIN a.discussionFailures
  /\ d \notin DOMAIN a.localCircuitOpenUntil
  /\ \A k \in DOMAIN a.responseQueue : a.responseQueue[k].discussionId # d

\* C40: once an ended discussion is cleaned up (not watched, no runtime entry
\* left), no step of the running agent creates a runtime entry for it again,
\* whatever attempt for it was in flight or in backoff at the cleanup
C40_NoEntryAfterCleanup ==
  [][\A d \in DiscIds :
       (/\ agent.running /\ agent'.running
        /\ HasEnd(files[d])
        /\ d \notin DOMAIN agent.watchedDiscussions
        /\ NoRuntimeEntry(agent, d))
         => NoRuntimeEntry(agent', d)]_vars

====
